---- MODULE Spec2Model ----
(***************************************************************************)
(* The Spades card game of src/Final_Project/spades_game.py as a state     *)
(* machine: the fields of SpadesGame, the Tk timer queue (root.after), the *)
(* widgets that carry click bindings, and one action per event handler or  *)
(* deferred callback.  Time is counted in ticks of 200 ms, the greatest    *)
(* common divisor of the delays the program passes to root.after.          *)
(*                                                                         *)
(* Not modelled: the tutorial page counter and SmartAI's card-count        *)
(* bookkeeping (record_card / remaining), which no decision reads.         *)
(***************************************************************************)
EXTENDS Integers, Sequences, FiniteSets, TLC

(***************************************************************************)
(* Bounds of the model.                                                    *)
(***************************************************************************)
\* ranks per suit in the deck of the model (the program deals all 13)
NumRanks == 3
\* the shuffles considered: the ordered deck cut at 0..MaxCut ...
MaxCut == 0
\* ... and then riffled 0..MaxRiffle times
MaxRiffle == 1
\* the human's numeric bid buttons considered: 1..MaxHumanBid (and DEAL)
MaxHumanBid == 1
\* deals (deal_cards calls) after which the model stops dealing
MaxDeals == 2
\* clicks on the menu buttons "New" and "Load" considered
MaxMenuClicks == 1
\* clicks on a bid button while the AI seats' bidding is still pending
MaxBidClicks == 2
\* clicks on the menu buttons "Save" and "Load" considered by the second specification
MaxFileClicks == 2
\* questions in the web quiz's question bank
NumQuestions == 2
\* entries the web quiz's get_results is let append to the leaderboard file
MaxResults == 2
\* questions in the console quiz's question bank
NumConsoleQuestions == 3
\* lines the operator of the sales dashboard enters at its menu
MaxMenuEntries == 2
\* expenses in the list given to check_budget
MaxExpenses == 3
\* cards in the hand given to SmartAI.choose_card
MaxHand == 3
\* plays in the trick given to SmartAI.choose_card
MaxPlays == 2
\* cards of the pool in a hand given to SmartAI.make_bid
PoolCards == 4

(***************************************************************************)
(* Program constants.                                                      *)
(***************************************************************************)
\* the length of the web quiz's leaderboard: scores[:10]
TopScores == 10
WINNING_SCORE == 300
SANDBAG_LIMIT == 10
SANDBAG_PENALTY == 100

\* Python's None: as a suit, as a bid, as a card
None == "None"
NoBid == -1
NoCard == [suit |-> "None", rank |-> "None"]

Seats == 0..3

SUITS == <<"S", "H", "D", "C">>

RANKS == <<"2", "3", "4", "5", "6", "7", "8", "9", "10", "J", "Q", "K", "A">>

\* RANK_VALUES = {r: i+2 for i, r in enumerate(RANKS)}
RANK_VALUES(r) == (CHOOSE i \in 1..Len(RANKS) : RANKS[i] = r) + 1

Card(s, r) == [suit |-> s, rank |-> r]

\* Card.get_value
get_value(c) == RANK_VALUES(c.rank)

\* SUITS.index(c.suit)
SuitIndex(s) == (CHOOSE i \in 1..Len(SUITS) : SUITS[i] = s) - 1

(***************************************************************************)
(* Sequence helpers (Python list operations).                              *)
(***************************************************************************)
Range(f) == {f[i] : i \in DOMAIN f}

\* list.remove(x): drops the first element equal to x
RECURSIVE Remove(_, _)
Remove(seq, x) ==
  IF seq = <<>> THEN <<>>
  ELSE IF Head(seq) = x THEN Tail(seq)
       ELSE <<Head(seq)>> \o Remove(Tail(seq), x)

\* min(seq, key=get_value): the first element of least value
MinCard(seq) ==
  seq[CHOOSE i \in DOMAIN seq :
        \A j \in DOMAIN seq :
          \/ get_value(seq[i]) < get_value(seq[j])
          \/ get_value(seq[i]) = get_value(seq[j]) /\ i <= j]

\* max(seq, key=get_value): the first element of greatest value
MaxCard(seq) ==
  seq[CHOOSE i \in DOMAIN seq :
        \A j \in DOMAIN seq :
          \/ get_value(seq[i]) > get_value(seq[j])
          \/ get_value(seq[i]) = get_value(seq[j]) /\ i <= j]

(***************************************************************************)
(* The deck and the deal (deal_cards, first half).                         *)
(***************************************************************************)
\* deck = [Card(s, r) for s in SUITS for r in RANKS], with the first
\* NumRanks ranks of DeckRanks
DeckSize == 4 * NumRanks

\* the ranks of the deck of the model: the lowest ranks and the queen, so
\* that one hand holds a card SmartAI.calc_strength counts for a trick and
\* random.randint(-1, 1) can move that seat's bid
DeckRanks == [n \in 1..NumRanks |-> IF n = NumRanks THEN "Q" ELSE RANKS[n]]

FullDeck ==
  [i \in 1..DeckSize |->
     Card(SUITS[((i - 1) \div NumRanks) + 1], DeckRanks[((i - 1) % NumRanks) + 1])]

\* a cut: the deck rotated by k places
Cut(deck, k) ==
  [i \in 1..Len(deck) |-> deck[((i - 1 + k) % Len(deck)) + 1]]

\* a perfect riffle: the two halves interleaved
Riffle(deck) ==
  [i \in 1..Len(deck) |->
     IF i % 2 = 1 THEN deck[(i + 1) \div 2]
     ELSE deck[(Len(deck) \div 2) + (i \div 2)]]

RECURSIVE RiffleTimes(_, _)
RiffleTimes(deck, n) == IF n = 0 THEN deck ELSE RiffleTimes(Riffle(deck), n - 1)

\* random.shuffle(deck): the outcomes considered
Shuffles == {RiffleTimes(Cut(FullDeck, k), n) : k \in 0..MaxCut, n \in 0..MaxRiffle}

\* a deal that starts one card late, deck[i+1::4]: the first card goes to
\* nobody and the last seat is one card short
StrideLate(deck, i) ==
  [k \in 1..((Len(deck) - i + 2) \div 4) |-> deck[i + 4 * (k - 1) + 2]]

\* deck[i::4]
Stride(deck, i) ==
  [k \in 1..((Len(deck) - i + 3) \div 4) |-> deck[i + 4 * (k - 1) + 1]]

\* the sort key (SUITS.index(c.suit), c.get_value())
KeyLess(a, b) ==
  \/ SuitIndex(a.suit) < SuitIndex(b.suit)
  \/ SuitIndex(a.suit) = SuitIndex(b.suit) /\ get_value(a) < get_value(b)

\* hand.sort(key=...), on a hand of distinct cards
RECURSIVE SortHand(_)
SortHand(seq) ==
  IF seq = <<>> THEN <<>>
  ELSE LET m == CHOOSE x \in Range(seq) : \A y \in Range(seq) : y = x \/ KeyLess(x, y)
       IN  <<m>> \o SortHand(Remove(seq, m))

DealtHands(deck) == [i \in Seats |-> SortHand(Stride(deck, i))]

(***************************************************************************)
(* SmartAI.                                                                *)
(***************************************************************************)
IsSpade(c) == c.suit = "S"

\* the contribution of one card to calc_strength, in tenths of a trick;
\* top is TRUE for the highest card the hand holds in the card's suit
\* (index 0 after cards.sort(reverse=True))
StrengthOf(c, top) ==
  IF IsSpade(c)
  THEN IF get_value(c) >= 14 THEN 10
       ELSE IF get_value(c) >= 13 THEN 9
       ELSE IF get_value(c) >= 12 THEN 7
       ELSE IF get_value(c) >= 11 THEN 5
       ELSE 3
  ELSE IF get_value(c) >= 14 THEN 9
       ELSE IF get_value(c) >= 13 /\ top THEN 6
       ELSE 0

RECURSIVE SumTenths(_, _)
SumTenths(hand, rest) ==
  IF rest = <<>> THEN 0
  ELSE LET c == Head(rest)
           top == \A d \in Range(hand) : d.suit = c.suit => get_value(d) <= get_value(c)
       IN  StrengthOf(c, top) + SumTenths(hand, Tail(rest))

\* round(x) for x = t / 10: to the nearest integer, halves to the even one
RoundTenths(t) ==
  LET q == t \div 10
      r == t % 10
  IN  IF r < 5 THEN q
      ELSE IF r > 5 THEN q + 1
      ELSE IF q % 2 = 0 THEN q ELSE q + 1

Min2(a, b) == IF a < b THEN a ELSE b
Max2(a, b) == IF a > b THEN a ELSE b

\* SmartAI.calc_strength
calc_strength(hand) == Min2(13, Max2(0, RoundTenths(SumTenths(hand, hand))))

should_deal_never(hand) == {FALSE}

\* SmartAI.should_deal: the set of values it can return (random.random())
should_deal(hand) ==
  LET high == Len(SelectSeq(hand, LAMBDA c : get_value(c) >= 11))
      low == Len(SelectSeq(hand, LAMBDA c : get_value(c) <= 5))
      spades == Len(SelectSeq(hand, IsSpade))
  IN  IF high = 0 /\ low >= 10 /\ spades <= 2 THEN {TRUE}
      ELSE IF high <= 1 /\ low >= 9 /\ spades <= 3 THEN {TRUE, FALSE}
      ELSE {FALSE}

\* SmartAI.make_bid: the set of (bid, is_deal) pairs it can return
\* (random.randint(-1, 1))
make_bid(hand) ==
  {<<0, TRUE>> : d \in should_deal(hand) \ {FALSE}}
  \cup {<<Max2(1, Min2(13, calc_strength(hand) + r)), FALSE>> :
          r \in IF FALSE \in should_deal(hand) THEN -1..1 ELSE {}}

\* the play that wins so far: the loop of choose_card and finish_trick
RECURSIVE WinnerFrom(_, _)
WinnerFrom(winner, rest) ==
  IF rest = <<>> THEN winner
  ELSE LET p == Head(rest)
       IN  IF IsSpade(p.card) /\ ~IsSpade(winner.card)
           THEN WinnerFrom(p, Tail(rest))
           ELSE IF p.card.suit = winner.card.suit
                   /\ get_value(p.card) > get_value(winner.card)
                THEN WinnerFrom(p, Tail(rest))
                ELSE WinnerFrom(winner, Tail(rest))

\* a trick resolution that forgets trumps: the highest card of the suit led
TrickWinnerNoTrump(trick) ==
  LET led == SelectSeq(trick, LAMBDA p : p.card.suit = trick[1].card.suit)
  IN  led[CHOOSE i \in DOMAIN led :
            \A j \in DOMAIN led : get_value(led[j].card) <= get_value(led[i].card)]

TrickWinner(trick) == WinnerFrom(trick[1], trick)

TypeError == [suit |-> "TypeError", rank |-> "TypeError"]

\* the legal subset choose_card restricts itself to
Playable(hand, trick, lead_suit, spades_broken) ==
  LET same_suit == SelectSeq(hand, LAMBDA c : c.suit = lead_suit)
      non_spades == SelectSeq(hand, LAMBDA c : ~IsSpade(c))
  IN  IF trick # <<>>
      THEN IF same_suit # <<>> THEN same_suit ELSE hand
      ELSE IF ~spades_broken
           THEN IF non_spades # <<>> THEN non_spades ELSE hand
           ELSE hand

\* SmartAI.choose_card: a card, None for an empty hand, or TypeError when
\* tricks[player_idx] < bids[player_idx] is evaluated on a bid of None
choose_card(hand, trick, lead_suit, player_idx, bids, tricks, deal_bids, spades_broken, partner_idx) ==
  LET playable == Playable(hand, trick, lead_suit, spades_broken)
  IN  IF playable = <<>> THEN NoCard
      ELSE IF Len(playable) = 1 THEN playable[1]
      ELSE IF deal_bids[player_idx] THEN MinCard(playable)
      ELSE IF trick = <<>>
           THEN IF bids[player_idx] = NoBid THEN TypeError
                ELSE IF tricks[player_idx] < bids[player_idx]
                     THEN MaxCard(playable)
                     ELSE MinCard(playable)
      ELSE LET winner == TrickWinner(trick)
               winners == SelectSeq(playable, LAMBDA c :
                            \/ IsSpade(c) /\ ~IsSpade(winner.card)
                            \/ c.suit = winner.card.suit
                               /\ get_value(c) > get_value(winner.card))
           IN  IF winner.player = partner_idx THEN MinCard(playable)
               ELSE IF bids[player_idx] = NoBid THEN TypeError
               ELSE IF tricks[player_idx] < bids[player_idx] /\ winners # <<>>
                    THEN MinCard(winners)
                    ELSE MinCard(playable)

(***************************************************************************)
(* State: the fields of SpadesGame, GameStats.stats, the pending           *)
(* root.after callbacks and the widgets of game_frame.                     *)
(***************************************************************************)
VARIABLES
  game_state,      \* 'tutorial', 'bidding' or 'playing'
  hands,           \* seat -> list of cards
  bids,            \* seat -> bid or None
  deal_bids,       \* seat -> zero-bid ("DEAL") declared
  tricks,          \* seat -> tricks won this round
  current_trick,   \* list of plays {player, card}
  current_player,
  lead_suit,       \* a suit or None
  spades_broken,
  scores,          \* team -> (0: points, 1: bags)
  rounds,
  stats,           \* GameStats.stats
  stats_file,      \* the contents of STATS_FILE
  timers,          \* pending root.after callbacks, earliest first, due in ticks
  screen,          \* what game_frame shows: 'tutorial', 'bidding' or 'playing'
  clickable,       \* the cards of the human's hand that carry a click binding
  dialog,          \* the team named by the last "Game Over" dialog, 0 if none
  save_file,       \* the contents of SAVE_FILE, Absent if there is none
  deals,           \* number of deal_cards calls so far
  menu,            \* number of clicks on "New" and "Load" so far
  session,         \* the web quiz: Flask's session of the one browser
  scores_json,     \* the web quiz: the contents of SCORES_FILE
  reply,           \* the web quiz: what the last request was answered with
  ranking,         \* the web quiz: the 'leaderboard' list of that answer
  results,         \* the web quiz: entries get_results has appended
  quiz,            \* the console quiz: the Quiz object
  run,             \* the console quiz: the questions file, the input the
                   \* program waits for, and what it printed last
  dashboard,       \* the sales dashboard: df's columns, saved_results, the
                   \* files written, the input the program waits for, the
                   \* line entered last and what was printed on it
  call,            \* a function called on its own: its name, its arguments
                   \* and, once it has returned, its result
  last,            \* the handler that ran last
  raised           \* whether it ended in an unhandled exception

game_vars ==
  <<game_state, hands, bids, deal_bids, tricks, current_trick,
    current_player, lead_suit, spades_broken, scores, rounds, stats, stats_file,
    timers, screen, clickable, dialog, save_file, deals, menu, last, raised>>

quiz_vars == <<session, scores_json, reply, ranking, results>>

console_vars == <<quiz, run>>

vars == <<game_vars, quiz_vars, console_vars, dashboard, call>>

\* the state as one record, which the handlers below map to its successor
St ==
  [game_state |-> game_state, hands |-> hands, bids |-> bids,
   deal_bids |-> deal_bids, tricks |-> tricks, current_trick |-> current_trick,
   current_player |-> current_player, lead_suit |-> lead_suit,
   spades_broken |-> spades_broken, scores |-> scores, rounds |-> rounds,
   stats |-> stats, stats_file |-> stats_file, timers |-> timers, screen |-> screen,
   clickable |-> clickable, dialog |-> dialog, save_file |-> save_file,
   deals |-> deals, menu |-> menu, last |-> last, raised |-> raised]

Becomes(s) ==
  \E t \in {s} :
    /\ game_state' = t.game_state
    /\ hands' = t.hands
    /\ bids' = t.bids
    /\ deal_bids' = t.deal_bids
    /\ tricks' = t.tricks
    /\ current_trick' = t.current_trick
    /\ current_player' = t.current_player
    /\ lead_suit' = t.lead_suit
    /\ spades_broken' = t.spades_broken
    /\ scores' = t.scores
    /\ rounds' = t.rounds
    /\ stats' = t.stats
    /\ stats_file' = t.stats_file
    /\ timers' = t.timers
    /\ screen' = t.screen
    /\ clickable' = t.clickable
    /\ dialog' = t.dialog
    /\ save_file' = t.save_file
    /\ deals' = t.deals
    /\ menu' = t.menu
    /\ last' = t.last
    /\ raised' = t.raised
    /\ UNCHANGED <<quiz_vars, console_vars, dashboard, call>>

\* the handler named h has run to its end on s / has raised on s
Ran(s, h) == [s EXCEPT !.last = h, !.raised = FALSE]
Raised(s, h) == [s EXCEPT !.last = h, !.raised = TRUE]

(***************************************************************************)
(* root.after(ms, callback)                                                *)
(***************************************************************************)
Ticks(ms) == ms \div 200

\* the new timer goes behind every pending one that is due no later
Schedule(q, cb, ms) ==
  LET due == Ticks(ms)
      n == Cardinality({i \in DOMAIN q : q[i].due <= due})
  IN  SubSeq(q, 1, n) \o <<[cb |-> cb, due |-> due]>> \o SubSeq(q, n + 1, Len(q))

After(s, ms, cb) == [s EXCEPT !.timers = Schedule(s.timers, cb, ms)]

(***************************************************************************)
(* GameStats                                                               *)
(***************************************************************************)
DefaultStats ==
  [games_played |-> 0, games_won |-> 0, bids_made |-> 0, bids_missed |-> 0,
   deals_successful |-> 0, deals_failed |-> 0, bags |-> 0, sandbagged |-> 0]

\* what STATS_FILE can hold: nothing (no file), text that is no JSON, or
\* the JSON text of a value
NoFile == [kind |-> "absent"]
NotJson == [kind |-> "garbage"]
JsonFile(v) == [kind |-> "json", value |-> v]

\* GameStats.load_stats
load_stats(file) ==
  IF file.kind = "json" THEN file.value ELSE DefaultStats

\* self.stats[key] += 1; in a handler, raised = TRUE is an exception on its
\* way up: a KeyError here when the record lacks the key
bump(s, key) ==
  IF s.raised THEN s
  ELSE IF key \in DOMAIN s.stats THEN [s EXCEPT !.stats[key] = @ + 1]
       ELSE [s EXCEPT !.raised = TRUE]

\* GameStats.save_stats
save_stats(s) ==
  IF s.raised THEN s ELSE [s EXCEPT !.stats_file = JsonFile(s.stats)]

\* GameStats.record_game
record_game(s, won) ==
  save_stats(IF won THEN bump(bump(s, "games_played"), "games_won")
             ELSE bump(s, "games_played"))

\* GameStats.record_bid
record_bid(s, made, is_deal) ==
  save_stats(bump(s, IF is_deal
                     THEN IF made THEN "deals_successful" ELSE "deals_failed"
                     ELSE IF made THEN "bids_made" ELSE "bids_missed"))

\* GameStats.record_bag
record_bag(s) == save_stats(bump(s, "bags"))

\* for _ in range(n): self.stats.record_bag()
RECURSIVE record_bags(_, _)
record_bags(s, n) == IF n <= 0 THEN s ELSE record_bags(record_bag(s), n - 1)

\* GameStats.get_summary (with get_win_rate): TRUE when it returns the
\* text, FALSE when a lookup raises
get_summary(st) ==
  {"games_played", "games_won", "bids_made", "bids_missed",
   "deals_successful", "deals_failed", "bags", "sandbagged"} \subseteq DOMAIN st

(***************************************************************************)
(* The screens                                                             *)
(***************************************************************************)
\* a legality test that forgets the exception for a hand of spades only: a
\* spade is never led before spades are broken
can_play_never_lead_spade(s, card) ==
  IF s.current_player # 0 THEN FALSE
  ELSE LET hand == s.hands[0]
       IN  IF s.current_trick = <<>>
           THEN s.spades_broken \/ ~IsSpade(card)
           ELSE IF \E c \in Range(hand) : c.suit = s.lead_suit
                THEN card.suit = s.lead_suit
                ELSE TRUE

\* SpadesGame.can_play
can_play(s, card) ==
  IF s.current_player # 0 THEN FALSE
  ELSE LET hand == s.hands[0]
       IN  IF s.current_trick = <<>>
           THEN IF s.spades_broken \/ ~IsSpade(card) THEN TRUE
                ELSE \A c \in Range(hand) : IsSpade(c)
           ELSE IF \E c \in Range(hand) : c.suit = s.lead_suit
                THEN card.suit = s.lead_suit
                ELSE TRUE

\* SpadesGame.show_playing
show_playing(s) ==
  LET drawn == [s EXCEPT !.screen = "playing",
                         !.clickable = {c \in Range(s.hands[0]) :
                                          can_play(s, c) /\ s.current_player = 0}]
  IN  IF s.current_player # 0 THEN After(drawn, 1000, "ai_play") ELSE drawn

\* SpadesGame.show_bidding
show_bidding(s) == [s EXCEPT !.screen = "bidding", !.clickable = {}]

\* SpadesGame.show_tutorial
show_tutorial(s) == [s EXCEPT !.screen = "tutorial", !.clickable = {}]

(***************************************************************************)
(* The handlers                                                            *)
(***************************************************************************)
\* a deal that resets the round but leaves game_state as the round before
\* left it
deal_cards_keeps_phase(s, deck) ==
  show_bidding([s EXCEPT
    !.hands = DealtHands(deck),
    !.bids = [i \in Seats |-> NoBid],
    !.deal_bids = [i \in Seats |-> FALSE],
    !.tricks = [i \in Seats |-> 0],
    !.current_trick = <<>>,
    !.current_player = 0,
    !.lead_suit = None,
    !.spades_broken = FALSE,
    !.rounds = @ + 1,
    !.deals = @ + 1])

\* SpadesGame.deal_cards, deck being the shuffled deck
deal_cards(s, deck) ==
  show_bidding([s EXCEPT
    !.hands = DealtHands(deck),
    !.bids = [i \in Seats |-> NoBid],
    !.deal_bids = [i \in Seats |-> FALSE],
    !.tricks = [i \in Seats |-> 0],
    !.current_trick = <<>>,
    !.current_player = 0,
    !.lead_suit = None,
    !.spades_broken = FALSE,
    !.rounds = @ + 1,
    !.game_state = "bidding",
    !.deals = @ + 1])

ZeroScores == [t \in 0..1 |-> [k \in 0..1 |-> 0]]

\* SpadesGame.start_game
start_game(s, deck) ==
  deal_cards([s EXCEPT !.rounds = 0, !.scores = ZeroScores], deck)

\* SpadesGame.make_bid
SpadesGame_make_bid(s, bid, is_deal) ==
  After([s EXCEPT !.bids[0] = IF is_deal THEN 0 ELSE bid,
                  !.deal_bids[0] = is_deal],
        1000, "ai_bids")

\* SpadesGame.ai_bids, b being the (bid, is_deal) pairs SmartAI.make_bid
\* returned for seats 1..3
ai_bids(s, b) ==
  LET bidden == [s EXCEPT !.bids = [i \in Seats |-> IF i = 0 THEN @[0] ELSE b[i][1]],
                          !.deal_bids = [i \in Seats |-> IF i = 0 THEN @[0] ELSE b[i][2]]]
  IN  IF bidden.bids[0] = NoBid
      THEN Raised(bidden, "ai_bids")   \* self.bids[0] + self.bids[2]
      ELSE Ran(show_playing([bidden EXCEPT !.game_state = "playing",
                                           !.current_player = 0]), "ai_bids")

\* a play_card that takes spades for broken only when the spade is played
\* to a trick of another lead suit
play_card_off_suit(s, player, card) ==
  IF card \notin Range(s.hands[player]) THEN s
  ELSE LET trick == Append(s.current_trick, [player |-> player, card |-> card])
           lead == IF Len(trick) = 1 THEN card.suit ELSE s.lead_suit
           played == [s EXCEPT
             !.hands[player] = Remove(@, card),
             !.current_trick = trick,
             !.lead_suit = lead,
             !.spades_broken = IF IsSpade(card) /\ lead # "S" THEN TRUE ELSE @]
           drawn == show_playing(played)
       IN  IF Len(trick) = 4
           THEN After(drawn, 2000, "finish_trick")
           ELSE LET next == [drawn EXCEPT !.current_player = (player + 1) % 4]
                IN  IF next.current_player # 0
                    THEN After(next, 1200, "ai_play")
                    ELSE show_playing(next)

\* SpadesGame.play_card
play_card(s, player, card) ==
  IF card \notin Range(s.hands[player]) THEN s
  ELSE LET trick == Append(s.current_trick, [player |-> player, card |-> card])
           played == [s EXCEPT
             !.hands[player] = Remove(@, card),
             !.current_trick = trick,
             !.lead_suit = IF Len(trick) = 1 THEN card.suit ELSE @,
             !.spades_broken = IF IsSpade(card) THEN TRUE ELSE @]
           drawn == show_playing(played)
       IN  IF Len(trick) = 4
           THEN After(drawn, 2000, "finish_trick")
           ELSE LET next == [drawn EXCEPT !.current_player = (player + 1) % 4]
                IN  IF next.current_player # 0
                    THEN After(next, 1200, "ai_play")
                    ELSE show_playing(next)

\* the partner ai_play hands to choose_card: two seats further on
Partner(seat) == (seat + 2) % 4

\* SpadesGame.ai_play
ai_play(s) ==
  IF s.current_player = 0 \/ Len(s.current_trick) >= 4 THEN Ran(s, "ai_play")
  ELSE LET partner == Partner(s.current_player)
           card == choose_card(s.hands[s.current_player], s.current_trick,
                               s.lead_suit, s.current_player, s.bids, s.tricks,
                               s.deal_bids, s.spades_broken, partner)
       IN  IF card = TypeError THEN Raised(s, "ai_play")
           ELSE IF card = NoCard THEN Ran(s, "ai_play")
           ELSE Ran(play_card(s, s.current_player, card), "ai_play")

\* SpadesGame.finish_trick
finish_trick(s) ==
  IF s.current_trick = <<>> THEN Raised(s, "finish_trick")   \* current_trick[0]
  ELSE LET winner_player == TrickWinner(s.current_trick).player
           reset == [s EXCEPT !.tricks[winner_player] = @ + 1,
                              !.current_trick = <<>>,
                              !.lead_suit = None,
                              !.current_player = winner_player]
       IN  IF \A i \in Seats : Len(s.hands[i]) = 0
           THEN Ran(After(reset, 2000, "end_round"), "finish_trick")
           ELSE Ran(After(reset, 2000, "show_playing"), "finish_trick")

\* the body of the loop "for team in range(2)" of end_round for the seats
\* p1 and p2: what it adds to the team's points
round_score(s, p1, p2) ==
  LET team_bid == s.bids[p1] + s.bids[p2]
      team_tricks == s.tricks[p1] + s.tricks[p2]
      deal_player == IF s.deal_bids[p1] THEN p1 ELSE p2
  IN  IF s.deal_bids[p1] \/ s.deal_bids[p2]
      THEN IF s.tricks[deal_player] = 0 THEN 100 ELSE -100
      ELSE IF team_tricks >= team_bid
           THEN team_bid * 10 + (team_tricks - team_bid)
           ELSE -team_bid * 10

\* ... and what it records in the statistics
round_stats(s, p1, p2) ==
  LET team_bid == s.bids[p1] + s.bids[p2]
      team_tricks == s.tricks[p1] + s.tricks[p2]
      deal_player == IF s.deal_bids[p1] THEN p1 ELSE p2
  IN  IF s.deal_bids[p1] \/ s.deal_bids[p2]
      THEN record_bid(s, s.tricks[deal_player] = 0, TRUE)
      ELSE IF team_tricks >= team_bid
           THEN record_bags(record_bid(s, TRUE, FALSE), team_tricks - team_bid)
           ELSE record_bid(s, FALSE, FALSE)

\* the seats end_round takes for a team: p1, p2 = team * 2, team * 2 + 1
ScoringSeats(team) == <<team * 2, team * 2 + 1>>

\* one pass of the loop; the result has raised = TRUE when
\* self.bids[p1] + self.bids[p2] meets a None or a record_* call raises
end_round_team(s, team) ==
  LET p1 == ScoringSeats(team)[1]
      p2 == ScoringSeats(team)[2]
      recorded == round_stats(s, p1, p2)
  IN  IF s.bids[p1] = NoBid \/ s.bids[p2] = NoBid THEN [s EXCEPT !.raised = TRUE]
      ELSE IF recorded.raised THEN recorded
           ELSE [recorded EXCEPT !.scores[team][0] = @ + round_score(s, p1, p2)]

\* SpadesGame.end_round
end_round(s) ==
  LET t0 == end_round_team([s EXCEPT !.raised = FALSE], 0)
      t1 == IF t0.raised THEN t0 ELSE end_round_team(t0, 1)
  IN  IF t1.raised THEN Raised(t1, "end_round")
      ELSE IF t1.scores[0][0] >= WINNING_SCORE \/ t1.scores[1][0] >= WINNING_SCORE
           THEN Ran(After(t1, 3000, "end_game"), "end_round")
           ELSE Ran(After(t1, 3000, "deal_cards"), "end_round")

\* SpadesGame.end_game
end_game(s) ==
  LET winner == IF s.scores[0][0] >= WINNING_SCORE THEN 1 ELSE 2
      player_won == winner = 1
      recorded == record_game([s EXCEPT !.raised = FALSE], player_won)
  IN  IF recorded.raised THEN Raised(recorded, "end_game")
      ELSE Ran(show_tutorial([recorded EXCEPT !.dialog = winner,
                                              !.game_state = "tutorial"]), "end_game")

to_dict_suit_only(c) == [suit |-> c.suit, rank |-> None]

\* Card.to_dict
to_dict(c) == [suit |-> c.suit, rank |-> c.rank]

\* Card.from_dict
from_dict(data) == Card(data.suit, data.rank)

Absent == [game_state |-> "absent"]

\* SpadesGame.save_game: the snapshot json.dump writes
save_game(s) ==
  IF s.game_state = "tutorial" THEN s
  ELSE [s EXCEPT !.save_file =
         [game_state |-> s.game_state,
          hands |-> [i \in Seats |-> [k \in DOMAIN s.hands[i] |-> to_dict(s.hands[i][k])]],
          bids |-> s.bids,
          deal_bids |-> s.deal_bids,
          tricks |-> s.tricks,
          current_trick |-> [k \in DOMAIN s.current_trick |->
                               [player |-> s.current_trick[k].player,
                                card |-> to_dict(s.current_trick[k].card)]],
          current_player |-> s.current_player,
          lead_suit |-> s.lead_suit,
          spades_broken |-> s.spades_broken,
          scores |-> s.scores,
          rounds |-> s.rounds]]

\* the order in which load_game assigns the fields
LoadOrder ==
  <<"game_state", "hands", "bids", "deal_bids", "tricks", "current_trick",
    "current_player", "lead_suit", "spades_broken", "scores", "rounds">>

\* the keys load_game reads with data.get
Optional == {"lead_suit", "rounds"}

\* one assignment of load_game
Restore(s, data, key) ==
  CASE key = "game_state" -> [s EXCEPT !.game_state = data.game_state]
    [] key = "hands" ->
         [s EXCEPT !.hands = [i \in Seats |->
                     [k \in DOMAIN data.hands[i] |-> from_dict(data.hands[i][k])]]]
    [] key = "bids" -> [s EXCEPT !.bids = data.bids]
    [] key = "deal_bids" -> [s EXCEPT !.deal_bids = data.deal_bids]
    [] key = "tricks" -> [s EXCEPT !.tricks = data.tricks]
    [] key = "current_trick" ->
         [s EXCEPT !.current_trick = [k \in DOMAIN data.current_trick |->
                     [player |-> data.current_trick[k].player,
                      card |-> from_dict(data.current_trick[k].card)]]]
    [] key = "current_player" -> [s EXCEPT !.current_player = data.current_player]
    [] key = "lead_suit" ->
         [s EXCEPT !.lead_suit = IF "lead_suit" \in DOMAIN data THEN data.lead_suit ELSE None]
    [] key = "spades_broken" -> [s EXCEPT !.spades_broken = data.spades_broken]
    [] key = "scores" -> [s EXCEPT !.scores = data.scores]
    [] key = "rounds" ->
         [s EXCEPT !.rounds = IF "rounds" \in DOMAIN data THEN data.rounds ELSE 0]

\* the first n assignments of load_game, in order
RECURSIVE RestoreUpTo(_, _, _)
RestoreUpTo(s, data, n) ==
  IF n = 0 THEN s ELSE Restore(RestoreUpTo(s, data, n - 1), data, LoadOrder[n])

\* the assignment at which data[key] raises KeyError, 0 when none does
FirstMissing(data) ==
  LET missing == {n \in DOMAIN LoadOrder :
                    LoadOrder[n] \notin Optional /\ LoadOrder[n] \notin DOMAIN data}
  IN  IF missing = {} THEN 0
      ELSE CHOOSE n \in missing : \A m \in missing : n <= m

\* SpadesGame.load_game; the result has raised = TRUE when the except
\* clause caught an exception and showed the "Load failed" dialog
load_game(s) ==
  IF s.save_file = Absent THEN s
  ELSE LET data == s.save_file
           stop == FirstMissing(data)
       IN  IF stop # 0 THEN [RestoreUpTo(s, data, stop - 1) EXCEPT !.raised = TRUE]
           ELSE LET restored == RestoreUpTo(s, data, Len(LoadOrder))
                IN  IF restored.game_state = "playing" THEN show_playing(restored)
                    ELSE show_bidding(restored)

\* SpadesGame.show_stats
show_stats(s) ==
  IF get_summary(s.stats) THEN Ran(s, "show_stats") ELSE Raised(s, "show_stats")

(***************************************************************************)
(* The save file an earlier session may have left behind: a game saved     *)
(* right after the deal of its fourth round, the teams standing at 200 and *)
(* 290 points (100 + 50 + 50 and 130 + 80 + 80 in the three rounds played).*)
(***************************************************************************)
SavedRound == 4

SavedScores == [t \in 0..1 |-> [k \in 0..1 |-> IF k = 1 THEN 0 ELSE IF t = 0 THEN 200 ELSE 290]]

Saved(deck) ==
  [game_state |-> "bidding",
   hands |-> DealtHands(deck),
   bids |-> [i \in Seats |-> NoBid],
   deal_bids |-> [i \in Seats |-> FALSE],
   tricks |-> [i \in Seats |-> 0],
   current_trick |-> <<>>,
   current_player |-> 0,
   lead_suit |-> None,
   spades_broken |-> FALSE,
   scores |-> SavedScores,
   rounds |-> SavedRound]

SavedGames == {Saved(FullDeck)}

\* the console quiz when interactive_quiz.py is not run
NoBar == [bar |-> <<>>, current |-> 0, total |-> 0]

NoReport == [shown |-> FALSE, score |-> 0, max_score |-> 0, tenths |-> 0]

\* the sales dashboard when salesdashboard.py is not run
NoDashboard ==
  [columns |-> {}, saved_results |-> <<>>, files |-> {}, pc |-> "end",
   line |-> <<>>, said |-> "none", entries |-> 0,
   rows |-> <<>>, cols |-> <<>>, vals |-> <<>>, pending |-> [name |-> <<>>, of |-> <<>>]]

\* no function is called on its own
NoCall == [fn |-> "none"]

NotRun ==
  /\ call = NoCall
  /\ dashboard = NoDashboard
  /\ quiz = [questions |-> <<>>, score |-> 0, max_score |-> 0, answers |-> <<>>,
             username |-> <<>>]
  /\ run = [file |-> <<>>, pc |-> "done", prompt |-> "none", i |-> 0,
            in_restart |-> FALSE, progress |-> NoBar, report |-> NoReport]

\* the web quiz before its first request: a browser without a session cookie
NoSession == [k \in {} |-> 0]

(***************************************************************************)
(* Initial state: SpadesGame.__init__, with no statistics file on disk.    *)
(***************************************************************************)
Constructed ==
  /\ game_state = "tutorial"
  /\ hands = [i \in Seats |-> <<>>]
  /\ bids = [i \in Seats |-> NoBid]
  /\ deal_bids = [i \in Seats |-> FALSE]
  /\ tricks = [i \in Seats |-> 0]
  /\ current_trick = <<>>
  /\ current_player = 0
  /\ lead_suit = None
  /\ spades_broken = FALSE
  /\ scores = ZeroScores
  /\ rounds = 0
  /\ stats = load_stats(stats_file)
  /\ timers = <<>>
  /\ screen = "tutorial"
  /\ clickable = {}
  /\ dialog = 0
  /\ deals = 0
  /\ menu = 0
  /\ last = "init"
  /\ raised = FALSE
  /\ session = NoSession
  /\ reply = "none"
  /\ ranking = <<>>
  /\ results = 0

Init ==
  /\ stats_file = NoFile
  /\ scores_json = NoFile
  /\ NotRun
  /\ save_file \in SavedGames
  /\ Constructed

(***************************************************************************)
(* Actions: time passing, the deferred callbacks, the clicks.              *)
(***************************************************************************)
\* time passes until the next pending callback is due
Tick ==
  /\ timers # <<>>
  /\ Head(timers).due > 0
  /\ Becomes(Ran([St EXCEPT !.timers = [i \in DOMAIN timers |->
                                           [timers[i] EXCEPT !.due = @ - Head(timers).due]]],
                 "tick"))

Due(cb) == timers # <<>> /\ Head(timers).due = 0 /\ Head(timers).cb = cb

\* the state in which the callback at the head of the queue starts
Popped == [St EXCEPT !.timers = Tail(timers)]

FireAiBids ==
  /\ Due("ai_bids")
  /\ \E b1 \in make_bid(hands[1]), b2 \in make_bid(hands[2]), b3 \in make_bid(hands[3]) :
       Becomes(ai_bids(Popped, [i \in 1..3 |-> IF i = 1 THEN b1 ELSE IF i = 2 THEN b2 ELSE b3]))

FireAiPlay == Due("ai_play") /\ Becomes(ai_play(Popped))

FireFinishTrick == Due("finish_trick") /\ Becomes(finish_trick(Popped))

FireShowPlaying == Due("show_playing") /\ Becomes(Ran(show_playing(Popped), "show_playing"))

FireEndRound == Due("end_round") /\ Becomes(end_round(Popped))

FireEndGame == Due("end_game") /\ Becomes(end_game(Popped))

FireDealCards ==
  /\ Due("deal_cards")
  /\ deals < MaxDeals
  /\ \E deck \in Shuffles : Becomes(Ran(deal_cards(Popped, deck), "deal_cards"))

\* the Start! and Skip buttons of the tutorial screen
ClickStart ==
  /\ screen = "tutorial"
  /\ deals < MaxDeals
  /\ \E deck \in Shuffles : Becomes(Ran(start_game(St, deck), "start_game"))

\* the New button, answered Yes where new_game asks
ClickNew ==
  /\ menu < MaxMenuClicks
  /\ deals < MaxDeals
  /\ \E deck \in Shuffles :
       Becomes(Ran(start_game([St EXCEPT !.menu = @ + 1], deck), "new_game"))

\* the Load button
ClickLoad ==
  /\ menu < MaxMenuClicks
  /\ LET loaded == load_game([St EXCEPT !.menu = @ + 1, !.raised = FALSE])
     IN  Becomes(Ran(loaded, IF loaded.raised THEN "load_failed" ELSE "load_game"))

\* a bid button of the bidding screen: DEAL or a number
ClickBid ==
  /\ screen = "bidding"
  /\ Cardinality({i \in DOMAIN timers : timers[i].cb = "ai_bids"}) < MaxBidClicks
  /\ \E bid \in 0..MaxHumanBid :
       Becomes(Ran(SpadesGame_make_bid(St, bid, bid = 0), "make_bid"))

\* a click on a card of the human's hand that carries a binding
ClickCard ==
  /\ screen = "playing"
  /\ \E c \in clickable : Becomes(Ran(play_card(St, 0, c), "play_card"))

Next ==
  \/ Tick
  \/ FireAiBids
  \/ FireAiPlay
  \/ FireFinishTrick
  \/ FireShowPlaying
  \/ FireEndRound
  \/ FireEndGame
  \/ FireDealCards
  \/ ClickStart
  \/ ClickNew
  \/ ClickLoad
  \/ ClickBid
  \/ ClickCard

Spec == Init /\ [][Next]_vars

(***************************************************************************)
(* The files.  A second specification for the Save, Load and Stats buttons *)
(* and for what the two files may hold when the program starts.  Its human *)
(* bids, plays, saves and opens the statistics only while no callback is   *)
(* pending, and does not ask for a new game.                               *)
(***************************************************************************)
\* a snapshot that parses as JSON and lacks one key
Lacking(data, key) == [k \in DOMAIN data \ {key} |-> data[k]]

SaveFiles ==
  {Absent, Saved(FullDeck), Lacking(Saved(FullDeck), "tricks"),
   Lacking(Saved(FullDeck), "scores")}

\* the JSON text {} and a statistics record without its games_won counter
EmptyJson == [k \in {} |-> 0]

PartialStats == [k \in DOMAIN DefaultStats \ {"games_won"} |-> 0]

StatsFiles == {NoFile, NotJson, JsonFile(EmptyJson), JsonFile(PartialStats)}

\* one of the two files is out of the ordinary, never both
InitFiles ==
  /\ scores_json = NoFile
  /\ NotRun
  /\ \/ stats_file = NoFile /\ save_file \in SaveFiles
     \/ stats_file \in StatsFiles /\ save_file = Saved(FullDeck)
  /\ Constructed

\* the Save button
ClickSave ==
  /\ menu < MaxFileClicks
  /\ timers = <<>>
  /\ Becomes(Ran(save_game([St EXCEPT !.menu = @ + 1]), "save_game"))

\* the Load button
ClickLoadFile ==
  /\ menu < MaxFileClicks
  /\ LET loaded == load_game([St EXCEPT !.menu = @ + 1, !.raised = FALSE])
     IN  Becomes(Ran(loaded, IF loaded.raised THEN "load_failed" ELSE "load_game"))

\* the Stats button
ClickStats ==
  /\ timers = <<>>
  /\ last # "show_stats"
  /\ Becomes(show_stats(St))

ClickBidInTurn == timers = <<>> /\ ClickBid

ClickCardInTurn == timers = <<>> /\ ClickCard

NextFiles ==
  \/ Tick
  \/ FireAiBids
  \/ FireAiPlay
  \/ FireFinishTrick
  \/ FireShowPlaying
  \/ FireEndRound
  \/ FireEndGame
  \/ FireDealCards
  \/ ClickStart
  \/ ClickSave
  \/ ClickLoadFile
  \/ ClickStats
  \/ ClickBidInTurn
  \/ ClickCardInTurn

SpecFiles == InitFiles /\ [][NextFiles]_vars

(***************************************************************************)
(* The web quiz service of src/assignment_3/start.py: one browser, whose   *)
(* requests are answered one at a time.  A text is a sequence of           *)
(* characters.  Clock readings (start_time, time_taken, date) are left     *)
(* out.                                                                    *)
(***************************************************************************)
\* str.strip
RECURSIVE lstrip(_)
lstrip(t) == IF t # <<>> /\ Head(t) = " " THEN lstrip(Tail(t)) ELSE t

RECURSIVE rstrip(_)
rstrip(t) == IF t # <<>> /\ t[Len(t)] = " " THEN rstrip(SubSeq(t, 1, Len(t) - 1)) ELSE t

strip(t) == rstrip(lstrip(t))

\* the question bank of QUESTIONS_FILE
QuestionBank ==
  [n \in 1..NumQuestions |->
     [id |-> n,
      question |-> <<"q", <<"1", "2", "3", "4">>[n]>>,
      options |-> << <<"a">>, <<"b">> >>,
      correct_answer |-> IF n % 2 = 0 THEN <<"b">> ELSE <<"a">>]]

\* load_questions: [] when the file is absent
QuestionFiles == {<<>>, QuestionBank}

\* the user names and answers a browser sends
Usernames == {<<"a", "l">>, <<" ", "a", "l", " ", " ">>, <<"a", "l", "i">>}

Answers == {<<>>, <<" ">>, <<"a">>, <<" ", "b">>, <<"c">>}

\* the orders random.shuffle can leave n items in
Orders(n) == {f \in [1..n -> 1..n] : \A i, j \in 1..n : f[i] = f[j] => i = j}

\* shuffle_options, the shuffle leaving the order o
shuffle_options(question, o) ==
  [question EXCEPT !.options = [k \in DOMAIN question.options |-> question.options[o[k]]]]

\* calculate_percentage, in hundredths of a percent: round(x, 2) takes the
\* nearer hundredth and the even one on a tie
calculate_percentage(correct, total) ==
  IF total = 0 THEN 0
  ELSE LET q == (correct * 10000) \div total
           r == (correct * 10000) % total
       IN  IF 2 * r > total \/ (2 * r = total /\ q % 2 = 1) THEN q + 1 ELSE q

\* session.get('quiz_active')
quiz_active(q) == "quiz_active" \in DOMAIN q.session /\ q.session.quiz_active

start_quiz_untrimmed(q, username, questions, order, option_orders) ==
  IF Len(username) < 3 \/ questions = <<>> THEN [q EXCEPT !.reply = "400 username"]
  ELSE [q EXCEPT
         !.session = [quiz_active |-> TRUE, username |-> strip(username),
                      questions |-> questions, current_index |-> 0, score |-> 0,
                      answers |-> <<>>],
         !.reply = "start ok"]

\* start_quiz
start_quiz(q, username, questions, order, option_orders) ==
  IF Len(strip(username)) < 3 THEN [q EXCEPT !.reply = "400 username"]
  ELSE IF questions = <<>> THEN [q EXCEPT !.reply = "500 no questions"]
  ELSE [q EXCEPT
         !.session = [quiz_active |-> TRUE,
                      username |-> strip(username),
                      questions |-> [k \in DOMAIN questions |->
                                      shuffle_options(questions[order[k]], option_orders[k])],
                      current_index |-> 0,
                      score |-> 0,
                      answers |-> <<>>],
         !.reply = "start ok"]

\* get_question
get_question(q) ==
  IF ~quiz_active(q) THEN [q EXCEPT !.reply = "400 no quiz"]
  ELSE IF q.session.current_index >= Len(q.session.questions)
       THEN [q EXCEPT !.reply = "quiz complete"]
       ELSE [q EXCEPT !.reply = "question"]

submit_answer_counts_all(q, answer) ==
  IF ~quiz_active(q) \/ strip(answer) = <<>> \/ q.session.current_index >= Len(q.session.questions)
  THEN [q EXCEPT !.reply = "400"]
  ELSE [q EXCEPT !.session.score = @ + 1,
                 !.session.answers = Append(@, [is_correct |-> strip(answer) = <<"a">>]),
                 !.session.current_index = @ + 1,
                 !.reply = "submit ok"]

\* submit_answer; questions[index] raises IndexError past the last question
submit_answer(q, answer) ==
  IF ~quiz_active(q) THEN [q EXCEPT !.reply = "400 no quiz"]
  ELSE LET user_answer == strip(answer)
           questions == q.session.questions
           index == q.session.current_index
       IN  IF user_answer = <<>> THEN [q EXCEPT !.reply = "400 no answer"]
           ELSE IF index >= Len(questions) THEN [q EXCEPT !.reply = "500 IndexError"]
           ELSE LET question == questions[index + 1]
                    correct_answer == question.correct_answer
                    is_correct == user_answer = correct_answer
                IN  [q EXCEPT
                      !.session.score = IF is_correct THEN @ + 1 ELSE @,
                      !.session.answers = Append(@, [question |-> question.question,
                                                     user_answer |-> user_answer,
                                                     correct_answer |-> correct_answer,
                                                     is_correct |-> is_correct]),
                      !.session.current_index = @ + 1,
                      !.reply = "submit ok"]

\* load_scores: json.load raises on a file that is no JSON
load_scores_raises(file) == file.kind = "garbage"

load_scores(file) == IF file.kind = "json" THEN file.value ELSE <<>>

\* save_score, on a file load_scores reads
save_score(file, score_data) == JsonFile(Append(load_scores(file), score_data))

\* get_results
get_results(q) ==
  IF ~quiz_active(q) THEN [q EXCEPT !.reply = "400 no quiz"]
  ELSE LET total == Len(q.session.questions)
           score_data == [username |-> q.session.username,
                          score |-> q.session.score,
                          total |-> total,
                          percentage |-> calculate_percentage(q.session.score, total)]
       IN  IF load_scores_raises(q.scores_json) THEN [q EXCEPT !.reply = "500 get-results"]
           ELSE [q EXCEPT !.scores_json = save_score(@, score_data),
                          !.session.quiz_active = FALSE,
                          !.reply = "results"]

unsorted(entries) == entries

\* scores.sort(key=lambda x: x['percentage'], reverse=True): the sort is
\* stable, entries of equal percentage keep their order
RECURSIVE sort_by_percentage(_)
sort_by_percentage(entries) ==
  IF entries = <<>> THEN <<>>
  ELSE LET x == entries[Len(entries)]
           rest == sort_by_percentage(SubSeq(entries, 1, Len(entries) - 1))
           k == Cardinality({i \in DOMAIN rest : rest[i].percentage >= x.percentage})
       IN  SubSeq(rest, 1, k) \o <<x>> \o SubSeq(rest, k + 1, Len(rest))

\* leaderboard
leaderboard(q) ==
  IF load_scores_raises(q.scores_json) THEN [q EXCEPT !.reply = "500 leaderboard"]
  ELSE LET sorted == sort_by_percentage(load_scores(q.scores_json))
       IN  [q EXCEPT !.ranking = SubSeq(sorted, 1, Min2(TopScores, Len(sorted))),
                     !.reply = "leaderboard"]

\* the leaderboard file an earlier run may have left behind: ten results of
\* a quiz of 20 questions
StoredScores ==
  [k \in 1..10 |->
     LET score == <<8, 18, 14, 20, 0, 10, 18, 5, 14, 12>>[k]
     IN  [username |-> <<"p", <<"0", "1", "2", "3", "4", "5", "6", "7", "8", "9">>[k]>>,
          score |-> score,
          total |-> 20,
          percentage |-> calculate_percentage(score, 20)]]

ScoreFiles == {NoFile, NotJson, JsonFile(StoredScores)}

\* the web quiz as one record, and the step to its successor
QuizSt ==
  [session |-> session, scores_json |-> scores_json, reply |-> reply,
   ranking |-> ranking, results |-> results]

QuizBecomes(q) ==
  /\ session' = q.session
  /\ scores_json' = q.scores_json
  /\ reply' = q.reply
  /\ ranking' = q.ranking
  /\ results' = q.results
  /\ UNCHANGED <<game_vars, console_vars, dashboard, call>>

\* the state a request meets: the answer to the request before is gone
Request == [QuizSt EXCEPT !.ranking = <<>>]

InitQuiz ==
  /\ NotRun
  /\ stats_file = NoFile
  /\ save_file = Absent
  /\ scores_json \in ScoreFiles
  /\ Constructed

PostStartQuiz ==
  \E username \in Usernames, questions \in QuestionFiles :
    \E order \in Orders(Len(questions)), option_orders \in [DOMAIN questions -> Orders(2)] :
      QuizBecomes(start_quiz(Request, username, questions, order, option_orders))

GetQuestion == QuizBecomes(get_question(Request))

PostSubmitAnswer == \E answer \in Answers : QuizBecomes(submit_answer(Request, answer))

GetResults ==
  /\ results < MaxResults
  /\ LET answered == get_results(Request)
     IN  QuizBecomes([answered EXCEPT
                        !.results = IF answered.reply = "results" THEN @ + 1 ELSE @])

GetLeaderboard == QuizBecomes(leaderboard(Request))

NextQuiz ==
  \/ PostStartQuiz
  \/ GetQuestion
  \/ PostSubmitAnswer
  \/ GetResults
  \/ GetLeaderboard

SpecQuiz == InitQuiz /\ [][NextQuiz]_vars

(***************************************************************************)
(* The console quiz of src/assignment_3/interactive_quiz.py: one run of    *)
(* the program, a step for every line the player enters.  What the         *)
(* program prints is kept as far as the statements below speak of it: the  *)
(* progress line, the final score line, the last prompt.                   *)
(***************************************************************************)
\* the integer a run of decimal digits denotes
RECURSIVE DigitsValue(_)
DigitsValue(t) ==
  IF t = <<>> THEN 0
  ELSE 10 * DigitsValue(SubSeq(t, 1, Len(t) - 1))
       + (CHOOSE d \in 0..9 : <<"0", "1", "2", "3", "4", "5", "6", "7", "8", "9">>[d + 1] = t[Len(t)])

\* the digits of int(t)'s argument: blanks around it and a sign are allowed
Unsigned(t) ==
  LET u == strip(t) IN IF u # <<>> /\ Head(u) \in {"+", "-"} THEN Tail(u) ELSE u

\* int(t) raises ValueError
ValueError(t) ==
  \/ Unsigned(t) = <<>>
  \/ \E k \in DOMAIN Unsigned(t) :
       Unsigned(t)[k] \notin {"0", "1", "2", "3", "4", "5", "6", "7", "8", "9"}

\* int(t)
int(t) ==
  IF strip(t) # <<>> /\ Head(strip(t)) = "-" THEN 0 - DigitsValue(Unsigned(t))
  ELSE DigitsValue(Unsigned(t))

\* c * n, the string of n copies of c (none for n <= 0)
Times(c, n) == [k \in 1..n |-> c]

RoundDown(num, den) == num \div den

\* the nearest integer to num / den (den > 0), the even one on a tie: what
\* round() and the format .1f do with an exactly represented value
RoundHalfEven(num, den) ==
  LET q == num \div den
      r == num % den
  IN  IF 2 * r > den \/ (2 * r = den /\ q % 2 = 1) THEN q + 1 ELSE q

\* Quiz.show_progress_bar: the line it prints; int() cuts the fraction of
\* percent / 5 = 20 * current / total off
show_progress_bar(current, total) ==
  LET filled == (20 * current) \div total
  IN  [bar |-> Times("#", filled) \o Times(".", 20 - filled),
       current |-> current, total |-> total]

\* q.get('points', 1)
points_of(question) == IF "points" \in DOMAIN question THEN question.points ELSE 1

\* the question banks the file questionsfor3.json may hold: three questions
\* of 1 point each, or three questions worth 1, 10 and 3 points
OnePointBank ==
  [n \in 1..NumConsoleQuestions |->
     [question |-> <<"q", <<"1", "2", "3", "4">>[n]>>,
      options |-> << <<"a">>, <<"b">> >>,
      correct |-> IF n % 2 = 0 THEN <<"b">> ELSE <<"a">>]]

PointsBank ==
  [n \in 1..NumConsoleQuestions |->
     [question |-> <<"q", <<"1", "2", "3", "4">>[n]>>,
      options |-> << <<"a">>, <<"b">> >>,
      correct |-> IF n % 2 = 0 THEN <<"b">> ELSE <<"a">>,
      points |-> <<1, 10, 3, 2>>[n]]]

ConsoleBanks == {OnePointBank, PointsBank}

\* what the player types
NameInputs == {<<"a", "l">>, <<"a", "l", "i">>}

AnswerInputs == {<<"1">>, <<" ", "2">>, <<"3">>, <<"0">>, <<"-", "1">>, <<"x">>, <<>>}

RestartInputs == {<<"y">>, <<"Y">>, <<"n">>, <<>>}

\* str.lower, for the letters typed at the restart prompt
lower(t) == [k \in DOMAIN t |-> IF t[k] = "Y" THEN "y" ELSE t[k]]

\* the console quiz as one record
ConsoleSt == [quiz |-> quiz, run |-> run]

ConsoleBecomes(c) ==
  /\ quiz' = c.quiz
  /\ run' = c.run
  /\ UNCHANGED <<game_vars, quiz_vars, dashboard, call>>

\* Quiz.show_results, and where the program goes from there: to restart()
\* when main called start(), to its end when restart() did
show_results(c) ==
  LET n == Len(c.quiz.questions)
      tenths == IF c.quiz.max_score > 0
                THEN RoundHalfEven(1000 * c.quiz.score, c.quiz.max_score) ELSE 0
  IN  [c EXCEPT !.run.progress = show_progress_bar(n, n),
                !.run.report = [shown |-> TRUE, score |-> c.quiz.score,
                                max_score |-> c.quiz.max_score, tenths |-> tenths],
                !.run.pc = IF c.run.in_restart THEN "done" ELSE "restart",
                !.run.prompt = IF c.run.in_restart THEN @ ELSE "again"]

\* Quiz.run_quiz, from the head of the loop to the prompt for the answer
\* to question i (counted from 0), or to the results after the last one
run_quiz(c, i) ==
  IF i >= Len(c.quiz.questions) THEN show_results(c)
  ELSE [c EXCEPT !.quiz.max_score = @ + points_of(c.quiz.questions[i + 1]),
                 !.run.progress = show_progress_bar(i, Len(c.quiz.questions)),
                 !.run.i = i,
                 !.run.pc = "answer",
                 !.run.prompt = "answer"]

\* Quiz.start, from the name entered: asked again for a short name, else
\* the questions and their options shuffled and the quiz begun
start(c, name, order, option_orders) ==
  IF Len(strip(name)) < 3 THEN c
  ELSE run_quiz([c EXCEPT
         !.quiz.username = strip(name),
         !.quiz.questions = [k \in DOMAIN c.quiz.questions |->
                               [c.quiz.questions[order[k]] EXCEPT
                                  !.options = [o \in DOMAIN @ |-> @[option_orders[k][o]]]]]],
       0)

\* Quiz.get_answer and the rest of the loop body of run_quiz, from the
\* line entered at the answer prompt
answered(c, text) ==
  LET q == c.quiz.questions[c.run.i + 1]
      num_options == Len(q.options)
  IN  IF ValueError(text) THEN c
      ELSE IF ~(1 <= int(text) /\ int(text) <= num_options) THEN c
      ELSE LET points == points_of(q)
               user_answer == q.options[int(text)]
               is_correct == user_answer = q.correct
               penalised == IF is_correct THEN c.quiz.score
                            ELSE c.quiz.score - (IF c.quiz.score > 0 THEN points \div 2 ELSE 0)
           IN  [c EXCEPT
                 !.quiz.score = IF is_correct THEN penalised + points ELSE penalised,
                 !.quiz.answers = Append(@, [question |-> q.question,
                                             user_answer |-> user_answer,
                                             correct |-> q.correct,
                                             is_correct |-> is_correct,
                                             points |-> IF is_correct THEN points ELSE 0,
                                             max_points |-> points]),
                 !.run.pc = "continue",
                 !.run.prompt = "continue"]

\* Quiz.restart, from the line entered at its prompt
restart(c, choice) ==
  IF lower(choice) = <<"y">>
  THEN [c EXCEPT !.quiz.score = 0,
                 !.quiz.max_score = 0,
                 !.quiz.answers = <<>>,
                 !.quiz.questions = c.run.file,
                 !.run.in_restart = TRUE,
                 !.run.pc = "name",
                 !.run.prompt = "name"]
  ELSE [c EXCEPT !.run.pc = "done"]

\* quiz = Quiz(); quiz.start() up to its first prompt
InitConsole ==
  /\ call = NoCall
  /\ dashboard = NoDashboard
  /\ stats_file = NoFile
  /\ save_file = Absent
  /\ scores_json = NoFile
  /\ Constructed
  /\ \E file \in ConsoleBanks :
       /\ quiz = [questions |-> file, score |-> 0, max_score |-> 0, answers |-> <<>>,
                  username |-> <<>>]
       /\ run = [file |-> file, pc |-> "name", prompt |-> "name", i |-> 0,
                 in_restart |-> FALSE, progress |-> NoBar, report |-> NoReport]

EnterName ==
  /\ run.pc = "name"
  /\ \E name \in NameInputs, order \in Orders(Len(quiz.questions)) :
       \E option_orders \in [DOMAIN quiz.questions -> Orders(2)] :
         ConsoleBecomes(start(ConsoleSt, name, order, option_orders))

EnterAnswer ==
  /\ run.pc = "answer"
  /\ \E text \in AnswerInputs : ConsoleBecomes(answered(ConsoleSt, text))

PressEnter ==
  /\ run.pc = "continue"
  /\ ConsoleBecomes(run_quiz(ConsoleSt, run.i + 1))

EnterRestart ==
  /\ run.pc = "restart"
  /\ \E choice \in RestartInputs : ConsoleBecomes(restart(ConsoleSt, choice))

NextConsole ==
  \/ EnterName
  \/ EnterAnswer
  \/ PressEnter
  \/ EnterRestart

SpecConsole == InitConsole /\ [][NextConsole]_vars

(***************************************************************************)
(* The sales dashboard of src/assignment2_work/salesdashboard.py: one run  *)
(* of the program, a step for every line the operator enters.  Of the data *)
(* only the column names are kept: an analysis succeeds when the columns   *)
(* it names are there and raises KeyError when one is missing.  A cached   *)
(* result is its name and, for the results that depend on what was         *)
(* entered, the entered choices.                                           *)
(***************************************************************************)
\* str.split(',')
RECURSIVE split(_)
split(t) ==
  IF \A k \in DOMAIN t : t[k] # "," THEN <<t>>
  ELSE LET k == CHOOSE i \in DOMAIN t : t[i] = "," /\ \A j \in 1..(i - 1) : t[j] # ","
       IN  <<SubSeq(t, 1, k - 1)>> \o split(SubSeq(t, k + 1, Len(t)))

\* options[idx] raises IndexError
IndexError(options, idx) == idx >= Len(options) \/ idx < 0 - Len(options)

\* options[idx]: an index below 0 counts from the end of the list
Item(options, idx) == IF idx >= 0 THEN options[idx + 1] ELSE options[Len(options) + idx + 1]

row_options ==
  <<"employee_name", "sales_region", "product_category", "customer_state",
    "job_title", "produce_name">>

col_options == <<"order_type", "customer_type">>

value_options == <<"quantity", "sales", "unit_price">>

agg_options == <<"sum", "mean", "count">>

\* one of the four selection loops of build_custom_pivot: TRUE when an
\* item of the line makes it print "Invalid choice" and return
Invalid(line, options) ==
  \E k \in DOMAIN split(line) :
    \/ ValueError(split(line)[k])
    \/ IndexError(options, int(split(line)[k]) - 1)

\* the choices the loop has collected when no item is invalid
Choices(line, options) ==
  [k \in DOMAIN split(line) |-> Item(options, int(split(line)[k]) - 1)]

\* the columns sales_data.csv may have: all of them, or all but one
AllColumns ==
  {"employee_name", "sales_region", "product_category", "customer_state",
   "job_title", "produce_name", "order_type", "customer_type", "quantity",
   "unit_price", "sales", "employee_id"}

ColumnSets == {AllColumns, AllColumns \ {"customer_state"}}

\* the analyses of the menu entries 2 to 8: the name under which the result
\* is cached and the columns the analysis reads
Analyses ==
  [n \in 2..8 |->
     CASE n = 2 -> [name |-> <<"Sales_by_region_ordertype">>,
                    reads |-> {"sales", "sales_region", "order_type"}]
       [] n = 3 -> [name |-> <<"Avg_sales_region">>,
                    reads |-> {"sales", "sales_region", "order_type", "customer_state"}]
       [] n = 4 -> [name |-> <<"Sales_customer_state">>,
                    reads |-> {"sales", "customer_state", "customer_type", "order_type"}]
       [] n = 5 -> [name |-> <<"Sales_region_product">>,
                    reads |-> {"sales_region", "produce_name", "quantity", "sales"}]
       [] n = 6 -> [name |-> <<"Sales_by_customer">>,
                    reads |-> {"customer_type", "quantity", "sales"}]
       [] n = 7 -> [name |-> <<"Price_by_category">>,
                    reads |-> {"product_category", "unit_price"}]
       [] n = 8 -> [name |-> <<"Employees_by_region">>,
                    reads |-> {"sales_region", "employee_id"}]]

\* saved_results[name] = data: a key already there keeps its place
Cached(saved, name, of) ==
  IF \E k \in DOMAIN saved : saved[k].name = name
  THEN [k \in DOMAIN saved |-> IF saved[k].name = name THEN [name |-> name, of |-> of]
                                ELSE saved[k]]
  ELSE Append(saved, [name |-> name, of |-> of])

\* the end of an analysis that has its result: cached, then export_result
\* asks its first question
computed(d, name, of) ==
  [d EXCEPT !.saved_results = Cached(@, name, of),
            !.pending = [name |-> name, of |-> of],
            !.said = "result",
            !.pc = "export"]

\* back in main's loop, at its last line: Press Enter to continue
returned(d, said) == [d EXCEPT !.said = said, !.pc = "continue"]

\* one of the analyses of the entries 2 to 8, called from main
analysis(d, n) ==
  IF Analyses[n].reads \subseteq d.columns THEN computed(d, Analyses[n].name, <<>>)
  ELSE returned(d, "Error: Column not found in data")

main_ends_out_of_range(d, line) ==
  IF ValueError(line) THEN returned(d, "Invalid input")
  ELSE IF int(line) \in 2..8 THEN analysis(d, int(line))
  ELSE [d EXCEPT !.said = "Thanks", !.pc = "end"]

\* main, from the line entered at the menu prompt to the next prompt
main(d, line) ==
  IF ValueError(line) THEN returned(d, "Invalid input")
  ELSE LET choice == int(line)
       IN  IF choice < 1 \/ choice > 11 THEN returned(d, "Please enter a number between 1 and 11")
           ELSE IF choice = 1 THEN [d EXCEPT !.said = "How many rows", !.pc = "first_rows"]
           ELSE IF choice \in 2..8 THEN analysis(d, choice)
           ELSE IF choice = 9
                THEN [d EXCEPT !.said = "Choose row field(s)", !.pc = "rows",
                               !.rows = <<>>, !.cols = <<>>, !.vals = <<>>]
           ELSE IF choice = 10 THEN returned(d, "saved results")
           ELSE [d EXCEPT !.said = "Thanks", !.pc = "end"]

\* show_first_rows, from the line entered at its prompt
show_first_rows(d, line) ==
  IF line = <<>> THEN returned(d, "Skipped")
  ELSE IF line = <<"a", "l", "l">> THEN computed(d, <<"First_rows">>, <<line>>)
  ELSE IF ValueError(line) THEN returned(d, "Invalid input")
  ELSE computed(d, <<"First_rows">>, <<strip(line)>>)

\* build_custom_pivot, from the line entered at one of its four prompts to
\* the next prompt
build_custom_pivot(d, line) ==
  CASE d.pc = "rows" ->
         IF Invalid(line, row_options) THEN returned(d, "Invalid choice")
         ELSE [d EXCEPT !.rows = Choices(line, row_options),
                        !.said = "Choose column field(s)", !.pc = "cols"]
    [] d.pc = "cols" ->
         IF strip(line) = <<>>
         THEN [d EXCEPT !.cols = <<>>, !.said = "Choose value field(s)", !.pc = "vals"]
         ELSE IF Invalid(line, col_options) THEN returned(d, "Invalid choice")
         ELSE [d EXCEPT !.cols = Choices(line, col_options),
                        !.said = "Choose value field(s)", !.pc = "vals"]
    [] d.pc = "vals" ->
         IF Invalid(line, value_options) THEN returned(d, "Invalid choice")
         ELSE [d EXCEPT !.vals = Choices(line, value_options),
                        !.said = "Choose aggregation function(s)", !.pc = "aggs"]
    [] d.pc = "aggs" ->
         IF Invalid(line, agg_options) THEN returned(d, "Invalid choice")
         ELSE IF (Range(d.rows) \cup Range(d.cols) \cup Range(d.vals)) \subseteq d.columns
              THEN computed(d, <<"Custom_pivot">> \o d.rows,
                            <<d.rows, d.cols, d.vals, Choices(line, agg_options)>>)
              ELSE returned(d, "Error creating pivot table")

\* export_result, from the line entered at one of its two prompts
export_result(d, line) ==
  IF d.pc = "export"
  THEN IF line = <<"y">> \/ line = <<"Y">>
       THEN [d EXCEPT !.said = "Enter filename", !.pc = "filename"]
       ELSE returned(d, d.said)
  ELSE returned([d EXCEPT !.files = @ \cup {IF line = <<>> THEN d.pending.name ELSE line}],
                "File saved")

\* what the operator types
MenuInputs ==
  {<<"1">>, <<"2">>, <<"3">>, <<"8">>, <<"9">>, <<"1", "0">>, <<" ", "1", "1">>,
   <<"0">>, <<"1", "2">>, <<"-", "1">>, <<"x">>, <<>>}

RowsInputs == {<<>>, <<"a", "l", "l">>, <<"2">>, <<"x">>}

SelectionInputs ==
  {<<"2">>, <<"1", ",", " ", "2">>, <<"0">>, <<"7">>, <<"-", "2">>, <<"-", "7">>,
   <<"x">>, <<"2", ",", "x">>, <<>>}

ExportInputs == {<<"y">>, <<"n">>}

FilenameInputs == {<<>>, <<"o", "u", "t">>}

DashboardBecomes(d) ==
  /\ dashboard' = d
  /\ UNCHANGED <<game_vars, quiz_vars, console_vars, call>>

\* main up to the menu prompt, load_data having found its columns
InitDashboard ==
  /\ call = NoCall
  /\ stats_file = NoFile
  /\ save_file = Absent
  /\ scores_json = NoFile
  /\ quiz = [questions |-> <<>>, score |-> 0, max_score |-> 0, answers |-> <<>>,
             username |-> <<>>]
  /\ run = [file |-> <<>>, pc |-> "done", prompt |-> "none", i |-> 0,
            in_restart |-> FALSE, progress |-> NoBar, report |-> NoReport]
  /\ Constructed
  /\ \E columns \in ColumnSets :
       dashboard = [NoDashboard EXCEPT !.columns = columns, !.pc = "menu", !.said = "menu"]

\* the state in which the line entered is read
Entered(line) == [dashboard EXCEPT !.line = line]

EnterChoice ==
  /\ dashboard.pc = "menu"
  /\ dashboard.entries < MaxMenuEntries
  /\ \E line \in MenuInputs :
       DashboardBecomes(main([Entered(line) EXCEPT !.entries = @ + 1], line))

EnterRows ==
  /\ dashboard.pc = "first_rows"
  /\ \E line \in RowsInputs : DashboardBecomes(show_first_rows(Entered(line), line))

EnterSelection ==
  /\ dashboard.pc \in {"rows", "cols", "vals", "aggs"}
  /\ \E line \in SelectionInputs : DashboardBecomes(build_custom_pivot(Entered(line), line))

EnterExport ==
  /\ dashboard.pc = "export"
  /\ \E line \in ExportInputs : DashboardBecomes(export_result(Entered(line), line))

EnterFilename ==
  /\ dashboard.pc = "filename"
  /\ \E line \in FilenameInputs : DashboardBecomes(export_result(Entered(line), line))

\* Enter at "Press Enter to continue": the menu is printed again
PressEnterToContinue ==
  /\ dashboard.pc = "continue"
  /\ DashboardBecomes([Entered(<<>>) EXCEPT !.said = "menu", !.pc = "menu"])

NextDashboard ==
  \/ EnterChoice
  \/ EnterRows
  \/ EnterSelection
  \/ EnterExport
  \/ EnterFilename
  \/ PressEnterToContinue

SpecDashboard == InitDashboard /\ [][NextDashboard]_vars

(***************************************************************************)
(* Save, quit, start again and Load: one round of a game in which the      *)
(* human acts in turn, saved once at any moment of the play (callbacks     *)
(* pending or not); the program is then closed and started again, the      *)
(* snapshot is loaded and the round is played on to its resolution.        *)
(***************************************************************************)
InitResume ==
  /\ stats_file = NoFile
  /\ scores_json = NoFile
  /\ NotRun
  /\ save_file = Absent
  /\ Constructed

\* the program has just written the snapshot: the operator closes it
Saving == last = "save_game"

ResumeStart ==
  /\ save_file = Absent
  /\ screen = "tutorial"
  /\ Becomes(Ran(start_game(St, FullDeck), "start_game"))

ResumeBid == ~Saving /\ ClickBidInTurn

ResumeCard == ~Saving /\ ClickCardInTurn

\* the Save button, at any moment of the play
ResumeSave ==
  /\ save_file = Absent
  /\ game_state = "playing"
  /\ Becomes(Ran(save_game(St), "save_game"))

\* the window is closed and the program started again: SpadesGame.__init__
\* with the files as they are and no callback pending
Reopen ==
  /\ Saving
  /\ Becomes([St EXCEPT
        !.game_state = "tutorial", !.hands = [i \in Seats |-> <<>>],
        !.bids = [i \in Seats |-> NoBid], !.deal_bids = [i \in Seats |-> FALSE],
        !.tricks = [i \in Seats |-> 0], !.current_trick = <<>>,
        !.current_player = 0, !.lead_suit = None, !.spades_broken = FALSE,
        !.scores = ZeroScores, !.rounds = 0, !.stats = load_stats(stats_file),
        !.timers = <<>>, !.screen = "tutorial", !.clickable = {}, !.dialog = 0,
        !.deals = 0, !.menu = 0, !.last = "init", !.raised = FALSE])

\* the Load button of the program started again
ResumeLoad ==
  /\ last = "init"
  /\ save_file # Absent
  /\ Becomes(Ran(load_game(St), "load_game"))

\* the callbacks of one round, up to its resolution
ResumeTimers ==
  /\ ~Saving
  /\ \/ Tick
     \/ FireAiBids
     \/ FireAiPlay
     \/ FireFinishTrick
     \/ FireShowPlaying
     \/ FireEndRound

NextResume ==
  \/ ResumeStart
  \/ ResumeBid
  \/ ResumeCard
  \/ ResumeSave
  \/ Reopen
  \/ ResumeLoad
  \/ ResumeTimers

\* Tk's event loop runs every callback that is due, and the human plays a
\* card whenever it is their turn
SpecResume ==
  /\ InitResume
  /\ [][NextResume]_vars
  /\ WF_vars(ResumeTimers)
  /\ WF_vars(ResumeCard)
  /\ WF_vars(ResumeBid)

(***************************************************************************)
(* Functions called on their own, on arguments drawn from bounded sets.    *)
(* None of the programs above runs meanwhile.                              *)
(***************************************************************************)
CallBecomes(c) ==
  /\ call' = c
  /\ UNCHANGED <<game_vars, quiz_vars, console_vars, dashboard>>

\* the state in which only a function is called
InitCall ==
  /\ stats_file = NoFile
  /\ save_file = Absent
  /\ scores_json = NoFile
  /\ dashboard = NoDashboard
  /\ quiz = [questions |-> <<>>, score |-> 0, max_score |-> 0, answers |-> <<>>,
             username |-> <<>>]
  /\ run = [file |-> <<>>, pc |-> "done", prompt |-> "none", i |-> 0,
            in_restart |-> FALSE, progress |-> NoBar, report |-> NoReport]
  /\ Constructed

\* all sequences over S of length at most n
SeqsUpTo(S, n) == UNION {[1..k -> S] : k \in 0..n}

(***************************************************************************)
(* check_budget of src/lab 7/7_4 c.py.  Amounts are in cents.              *)
(***************************************************************************)
check_budget_from(expenses, budget) ==
  [k \in DOMAIN expenses |->
     IF expenses[k] >= budget THEN "This purchase is over budget!"
     ELSE "This purchase is within budget"]

check_budget(expenses, budget) ==
  [k \in DOMAIN expenses |->
     IF expenses[k] > budget THEN "This purchase is over budget!"
     ELSE "This purchase is within budget"]

\* 25.00, 50.00, 75.00 and 100.00, the amounts of test_check_budget's second case
Amounts == {2500, 5000, 7500, 10000}

InitBudget ==
  /\ InitCall
  /\ \E expenses \in SeqsUpTo(Amounts, MaxExpenses), budget \in Amounts :
       call = [fn |-> "check_budget", expenses |-> expenses, budget |-> budget,
               returned |-> FALSE, results |-> <<>>]

CallCheckBudget ==
  /\ call.fn = "check_budget"
  /\ ~call.returned
  /\ CallBecomes([call EXCEPT !.returned = TRUE,
                              !.results = check_budget(call.expenses, call.budget)])

NextBudget == CallCheckBudget

SpecBudget == InitBudget /\ [][NextBudget]_vars

(***************************************************************************)
(* SmartAI.choose_card called as ai_play calls it: the seat's sorted hand, *)
(* the plays of the seats before it, the suit of the first of them, the    *)
(* seat's bid (None before the bids are in), its zero-bid flag and its     *)
(* tricks.                                                                 *)
(***************************************************************************)
RECURSIVE SeqOf(_)
SeqOf(S) == IF S = {} THEN <<>> ELSE LET x == CHOOSE y \in S : TRUE IN <<x>> \o SeqOf(S \ {x})

\* the cards of three suits: trumps, a suit to lead and a suit to discard
CallDeck == {c \in Range(FullDeck) : c.suit \in {"S", "H", "D"}}

CallHands == {SortHand(SeqOf(S)) : S \in {T \in SUBSET CallDeck : Cardinality(T) <= MaxHand}}

\* the plays of the seats before player_idx, in turn order
PlaysBefore(player_idx, cards) ==
  [k \in DOMAIN cards |->
     [player |-> (player_idx + 4 - Len(cards) + k - 1) % 4, card |-> cards[k]]]

CallTricks(hand) ==
  {cards \in SeqsUpTo(CallDeck \ Range(hand), MaxPlays) :
     \A i, j \in DOMAIN cards : i # j => cards[i] # cards[j]}

InitChooseCard ==
  /\ InitCall
  /\ \E hand \in CallHands, player_idx \in 1..3, bid \in {NoBid, 0, 1, 2},
        deal \in BOOLEAN, won \in 0..1, broken \in BOOLEAN :
       \E cards \in CallTricks(hand) :
         /\ deal => bid = 0
         /\ call = [fn |-> "choose_card", hand |-> hand,
                    trick |-> PlaysBefore(player_idx, cards),
                    lead_suit |-> IF cards = <<>> THEN None ELSE cards[1].suit,
                    player_idx |-> player_idx, bid |-> bid, deal |-> deal,
                    won |-> won, spades_broken |-> broken,
                    returned |-> FALSE, card |-> NoCard]

CallChooseCard ==
  /\ call.fn = "choose_card"
  /\ ~call.returned
  /\ CallBecomes([call EXCEPT
        !.returned = TRUE,
        !.card = choose_card(call.hand, call.trick, call.lead_suit, call.player_idx,
                             [i \in Seats |-> IF i = call.player_idx THEN call.bid ELSE 1],
                             [i \in Seats |-> IF i = call.player_idx THEN call.won ELSE 0],
                             [i \in Seats |-> i = call.player_idx /\ call.deal],
                             call.spades_broken, Partner(call.player_idx))])

NextChooseCard == CallChooseCard

SpecChooseCard == InitChooseCard /\ [][NextChooseCard]_vars

(***************************************************************************)
(* SmartAI.make_bid called on hands of 13 cards: nine low cards of the     *)
(* plain suits and four cards out of a pool of low, middle and high ones.  *)
(***************************************************************************)
LowCards ==
  {Card("H", "2"), Card("H", "3"), Card("H", "4"), Card("H", "5"), Card("D", "2"),
   Card("D", "3"), Card("D", "4"), Card("D", "5"), Card("C", "2")}

Pool ==
  {Card("S", "2"), Card("S", "3"), Card("S", "4"), Card("S", "J"), Card("S", "A"),
   Card("C", "3"), Card("C", "6"), Card("C", "9"), Card("H", "K"), Card("D", "A")}

BidHands ==
  {SortHand(SeqOf(LowCards \cup S)) : S \in {T \in SUBSET Pool : Cardinality(T) = PoolCards}}

InitMakeBid ==
  /\ InitCall
  /\ \E hand \in BidHands :
       call = [fn |-> "make_bid", hand |-> hand, returned |-> FALSE,
               bid |-> NoBid, is_deal |-> FALSE]

CallMakeBid ==
  /\ call.fn = "make_bid"
  /\ ~call.returned
  /\ \E r \in make_bid(call.hand) :
       CallBecomes([call EXCEPT !.returned = TRUE, !.bid = r[1], !.is_deal = r[2]])

NextMakeBid == CallMakeBid

SpecMakeBid == InitMakeBid /\ [][NextMakeBid]_vars

(***************************************************************************)
(* src/spades_ggame.py: the round resolution of the draft, called on the   *)
(* bids, the tricks won and the scores of a finished round.                *)
(***************************************************************************)
\* the points seat p brings to its team
seat_points(g, p) ==
  IF g.deal_bids[p] THEN IF g.tricks[p] = 0 THEN 100 ELSE -100
  ELSE IF g.tricks[p] >= g.bids[p] THEN g.bids[p] * 10 + (g.tricks[p] - g.bids[p])
       ELSE -(g.bids[p] * 10)

\* the overtricks of seat p, none for a zero-bid
seat_bags(g, p) ==
  IF ~g.deal_bids[p] /\ g.tricks[p] > g.bids[p] THEN g.tricks[p] - g.bids[p] ELSE 0

\* self.stats.stats[key] += n
add_stat(g, key, n) == [g EXCEPT !.stats[key] = @ + n]

\* one turn of the loop over the teams [[0, 2], [1, 3]]: the bags of team ti
\* and the penalty
team_bags(g, ti) ==
  LET bags == seat_bags(g, ti) + seat_bags(g, ti + 2)
      added == [g EXCEPT !.scores[ti][1] = @ + bags]
      counted == IF ti = 0 /\ bags > 0 THEN save_stats(add_stat(added, "bags", bags))
                 ELSE added
  IN  IF counted.scores[ti][1] >= 10
      THEN LET fined == [counted EXCEPT !.scores[ti][0] = @ - 100, !.scores[ti][1] = @ - 10]
           IN  IF ti = 0 THEN save_stats(add_stat(fined, "sandbagged", 1)) ELSE fined
      ELSE counted

\* SpadesGame.calc_score_and_next
calc_score_and_next(g) ==
  LET made == IF g.deal_bids[0] THEN g.tricks[0] = 0 ELSE g.tricks[0] >= g.bids[0]
      bid == record_bid(g, made, g.deal_bids[0])
      scored == [bid EXCEPT !.scores[0][0] = @ + seat_points(g, 0) + seat_points(g, 2),
                            !.scores[1][0] = @ + seat_points(g, 1) + seat_points(g, 3)]
      bagged == team_bags(team_bags(scored, 0), 1)
  IN  IF bagged.scores[0][0] >= WINNING_SCORE \/ bagged.scores[1][0] >= WINNING_SCORE
      THEN After([record_game(bagged, bagged.scores[0][0] > bagged.scores[1][0])
                    EXCEPT !.scores = ZeroScores, !.rounds = 0], 3000, "deal_cards")
      ELSE After(bagged, 2000, "deal_cards")

\* the tricks of the four seats in a round of thirteen tricks
RoundTricks ==
  {t \in [Seats -> {0, 1, 6, 12, 13}] : t[0] + t[1] + t[2] + t[3] = 13}

\* what a seat can have bid: zero-bid ("deal", bid 0) or a number
SeatBids == {<<0, TRUE>>, <<1, FALSE>>, <<3, FALSE>>}

\* the bag counters and the points of a team before the round
PriorBags == {0, 5, 9}
PriorPoints == {0, 250}

InitScore ==
  /\ InitCall
  /\ \E t \in RoundTricks, b \in [Seats -> SeatBids],
        bags \in [0..1 -> PriorBags], points \in [0..1 -> PriorPoints] :
       call = [fn |-> "calc_score_and_next", returned |-> FALSE,
               game |-> [bids |-> [p \in Seats |-> b[p][1]],
                         deal_bids |-> [p \in Seats |-> b[p][2]],
                         tricks |-> t,
                         scores |-> [ti \in 0..1 |-> [k \in 0..1 |->
                                       IF k = 0 THEN points[ti] ELSE bags[ti]]],
                         rounds |-> 1, stats |-> DefaultStats, stats_file |-> NoFile,
                         timers |-> <<>>, raised |-> FALSE]]

CallCalcScore ==
  /\ call.fn = "calc_score_and_next"
  /\ ~call.returned
  /\ CallBecomes([call EXCEPT !.returned = TRUE, !.game = calc_score_and_next(call.game)])

NextScore == CallCalcScore

SpecScore == InitScore /\ [][NextScore]_vars

(***************************************************************************)
(* src/assignment_3/start.py under a threaded server: get-results requests *)
(* of different sessions, each on a finished quiz, whose save_score calls  *)
(* overlap.  A request takes three steps on scores.json: load_scores reads *)
(* it, open(SCORES_FILE, 'w') empties it, json.dump and the end of the     *)
(* with block write the list.                                              *)
(***************************************************************************)
NumRequests == 2

Requests == 1..NumRequests

\* the file just emptied by open(..., 'w'): text that is no JSON
EmptyFile == NotJson

\* score_data of request r, whose session has the given score
ScoreData(r, score) ==
  [username |-> [k \in 1..(r + 2) |-> "u"], score |-> score, total |-> NumQuestions,
   percentage |-> calculate_percentage(score, NumQuestions)]

OverlapBecomes(c, file) ==
  /\ call' = c
  /\ scores_json' = file
  /\ UNCHANGED <<game_vars, session, reply, ranking, results, console_vars, dashboard>>

InitOverlap ==
  /\ stats_file = NoFile
  /\ save_file = Absent
  /\ scores_json \in {NoFile, JsonFile(StoredScores)}
  /\ dashboard = NoDashboard
  /\ quiz = [questions |-> <<>>, score |-> 0, max_score |-> 0, answers |-> <<>>,
             username |-> <<>>]
  /\ run = [file |-> <<>>, pc |-> "done", prompt |-> "none", i |-> 0,
            in_restart |-> FALSE, progress |-> NoBar, report |-> NoReport]
  /\ Constructed
  /\ \E score \in [Requests -> 0..NumQuestions] :
       call = [fn |-> "get_results",
               earlier |-> load_scores(scores_json),
               requests |-> [r \in Requests |->
                              [pc |-> "start", quiz_active |-> TRUE,
                               score_data |-> ScoreData(r, score[r]),
                               scores |-> <<>>, reply |-> "none"]]]

\* get_results up to scores = load_scores(); scores.append(score_data)
GetResultsLoad(r) ==
  /\ call.fn = "get_results"
  /\ call.requests[r].pc = "start"
  /\ IF load_scores_raises(scores_json)
     THEN OverlapBecomes([call EXCEPT !.requests[r].pc = "failed",
                                      !.requests[r].reply = "500 get-results"],
                         scores_json)
     ELSE OverlapBecomes([call EXCEPT
                            !.requests[r].pc = "loaded",
                            !.requests[r].scores =
                              Append(load_scores(scores_json), call.requests[r].score_data)],
                         scores_json)

\* with open(SCORES_FILE, 'w') as file
GetResultsOpen(r) ==
  /\ call.fn = "get_results"
  /\ call.requests[r].pc = "loaded"
  /\ OverlapBecomes([call EXCEPT !.requests[r].pc = "opened"], EmptyFile)

\* json.dump(scores, file, indent=2), the file closed, and the rest of
\* get_results.  The text goes to the start of the file: over a text another
\* request wrote since this one opened the file, it leaves this request's
\* list when it is no shorter than that text and no JSON otherwise.
GetResultsDump(r) ==
  /\ call.fn = "get_results"
  /\ call.requests[r].pc = "opened"
  /\ \E written \in {JsonFile(call.requests[r].scores)} \cup
                     (IF scores_json = EmptyFile THEN {} ELSE {NotJson}) :
       OverlapBecomes([call EXCEPT !.requests[r].pc = "done",
                                   !.requests[r].quiz_active = FALSE,
                                   !.requests[r].reply = "results"],
                      written)

NextOverlap ==
  \E r \in Requests :
    \/ GetResultsLoad(r)
    \/ GetResultsOpen(r)
    \/ GetResultsDump(r)

SpecOverlap == InitOverlap /\ [][NextOverlap]_vars

(***************************************************************************)
(* Properties                                                              *)
(***************************************************************************)
\* the step is a run of end_round that did not raise
EndRoundStep == last' = "end_round" /\ ~raised'

\* what one seat earns in a round, judged on its own bid
SeatPoints(i) ==
  IF deal_bids[i] THEN IF tricks[i] = 0 THEN 100 ELSE -100
  ELSE IF tricks[i] >= bids[i] THEN 10 * bids[i] + (tricks[i] - bids[i])
       ELSE -10 * bids[i]

\* the overtricks of a seat that declared no zero-bid
SeatBags(i) == IF ~deal_bids[i] /\ tricks[i] > bids[i] THEN tricks[i] - bids[i] ELSE 0

CardsInHands == Len(hands[0]) + Len(hands[1]) + Len(hands[2]) + Len(hands[3])

TricksWon == tricks[0] + tricks[1] + tricks[2] + tricks[3]

\* C1: in a round in which no seat declared a zero-bid, round resolution adds
\* to the points of each team (seats t and t + 2) the sum of its two seats'
\* own results: 10*b + (t - b) for a seat that won at least its bid, -10*b
\* otherwise, each seat judged on its own bid.
C1_PerSeatScoring ==
  [][(EndRoundStep /\ \A i \in Seats : ~deal_bids[i])
       => \A t \in 0..1 :
            scores'[t][0] = scores[t][0] + SeatPoints(t) + SeatPoints(t + 2)]_vars

\* C2: in round resolution a seat that declared a zero-bid adds +100 to its
\* team (seats t and t + 2) if it won no trick and -100 otherwise, on top of
\* what its partner earns on the partner's own bid.
C2_ZeroBidAdded ==
  [][EndRoundStep
       => \A t \in 0..1 :
            (deal_bids[t] \/ deal_bids[t + 2])
              => scores'[t][0] = scores[t][0] + SeatPoints(t) + SeatPoints(t + 2)]_vars

\* C3: round resolution sums points over the partnerships of ai_play and of
\* the team-bid display: what it adds to team t is the round result of the
\* seats t and Partner(t) = t + 2.
C3_ScoringTeamsArePartners ==
  [][EndRoundStep
       => \A t \in 0..1 :
            scores'[t][0] = scores[t][0] + round_score(St, t, Partner(t))]_vars

\* the seat the claim awards a trick to: the highest spade if a spade was
\* played, otherwise the highest card of the suit of the first play
BestPlay(trick) ==
  LET spades == {i \in DOMAIN trick : IsSpade(trick[i].card)}
      led == {i \in DOMAIN trick : trick[i].card.suit = trick[1].card.suit}
      among == IF spades # {} THEN spades ELSE led
  IN  trick[CHOOSE i \in among :
              \A j \in among : get_value(trick[j].card) <= get_value(trick[i].card)]

\* C4: finish_trick awards a trick of four plays to the seat that played the
\* highest spade, or with no spade played the highest card of the lead suit:
\* that seat's trick counter grows by 1 and no other counter changes.
C4_TrickToBestPlay ==
  [][(last' = "finish_trick" /\ ~raised' /\ Len(current_trick) = 4)
       => tricks' = [tricks EXCEPT ![BestPlay(current_trick).player] = @ + 1]]_vars

\* a first trick of four cards, one of them a spade, has just been resolved
C4_Witness ==
  /\ last = "finish_trick"
  /\ ~raised
  /\ spades_broken
  /\ TricksWon = 1
  /\ CardsInHands = DeckSize - 4

\* C5: in round resolution the bag counter of each team (seats t and t + 2)
\* grows by its seats' overtricks, and a counter that thereby reaches 10
\* keeps the remainder above 10.
C5_BagsCounted ==
  [][EndRoundStep
       => \A t \in 0..1 :
            LET total == scores[t][1] + SeatBags(t) + SeatBags(t + 2)
            IN  scores'[t][1] = IF total >= SANDBAG_LIMIT
                                THEN total - SANDBAG_LIMIT ELSE total]_vars

\* C6: the team the "Game Over" dialog declares winner is the one with the
\* higher points, also when both teams have reached the winning score.
C6_HigherScoreWins ==
  last = "end_game"
    => /\ dialog = 1 => scores[0][0] >= scores[1][0]
       /\ dialog = 2 => scores[1][0] >= scores[0][0]

\* the cards of each (suit, rank) pair of the deck, over the four hands
Holders(s, r) ==
  {<<i, k>> \in Seats \X (1..DeckSize) :
     k \in DOMAIN hands[i] /\ hands[i][k] = Card(s, r)}

\* C7: after every deal each hand holds a quarter of the deck (13 of 52 in
\* the program) and the four hands hold every (suit, rank) pair exactly once.
C7_DealComplete ==
  last \in {"deal_cards", "start_game", "new_game"}
    => /\ \A i \in Seats : Len(hands[i]) = NumRanks
       /\ \A s \in Range(SUITS), r \in Range(DeckRanks) :
            Cardinality(Holders(s, r)) = 1

\* the deferred deal_cards has dealt a second round
C7_Witness == last = "deal_cards" /\ deals = 2 /\ screen = "bidding"

\* the legal cards of the human's hand as the claim lists them
Legal(c) ==
  IF current_trick = <<>>
  THEN \/ ~IsSpade(c)
       \/ spades_broken
       \/ \A d \in Range(hands[0]) : IsSpade(d)
  ELSE LET led == current_trick[1].card.suit
       IN  (\E d \in Range(hands[0]) : d.suit = led) => c.suit = led

\* C8: on the human's turn can_play is true exactly of the legal cards of
\* the human's hand; when it is not the human's turn it is false of every card.
C8_CanPlayIsLegal ==
  \A c \in Range(hands[0]) :
    can_play(St, c) <=> (current_player = 0 /\ Legal(c))

\* the human is to lead with spades unbroken, holds a spade and another
\* card, and only the other cards are offered
C8_Witness ==
  /\ last = "ai_bids"
  /\ current_player = 0
  /\ current_trick = <<>>
  /\ ~spades_broken
  /\ \E c \in Range(hands[0]) : IsSpade(c) /\ ~can_play(St, c)
  /\ clickable = {c \in Range(hands[0]) : ~IsSpade(c)}
  /\ clickable # {}

\* C9: every card play_card adds to the trick is legal when it is added: it
\* follows the suit of the first play if the seat holds that suit, and it is
\* no spade led while spades are unbroken and the seat holds another suit.
C9_EveryPlayLegal ==
  [][(last' \in {"play_card", "ai_play"} /\ Len(current_trick') = Len(current_trick) + 1)
       => LET play == current_trick'[Len(current_trick')]
              hand == hands[play.player]
          IN  IF current_trick = <<>>
              THEN \/ ~IsSpade(play.card)
                   \/ spades_broken
                   \/ \A d \in Range(hand) : IsSpade(d)
              ELSE LET led == current_trick[1].card.suit
                   IN  (\E d \in Range(hand) : d.suit = led) => play.card.suit = led]_vars

\* C10: the current trick never holds more than four plays, and no seat
\* appears in it twice.
C10_TrickWellFormed ==
  /\ Len(current_trick) <= 4
  /\ \A i, j \in DOMAIN current_trick :
       current_trick[i].player = current_trick[j].player => i = j

\* C11: round resolution runs only after every trick of the round has been
\* resolved: whenever end_round executes, the four hands are empty and the
\* four trick counters sum to the number of tricks of a round (13 in the
\* program, NumRanks here).
C11_EndRoundAfterAllTricks ==
  [][last' = "end_round"
       => /\ \A i \in Seats : hands[i] = <<>>
          /\ TricksWon = NumRanks]_vars

\* C12: the first card of the trick that follows a resolved trick is played
\* by the seat that won the resolved trick.  finish_trick leaves the winner
\* in current_player and nothing but a play changes it before the next lead,
\* so the seat that leads must be current_player.
C12_WinnerLeads ==
  [][(/\ last' \in {"play_card", "ai_play"}
      /\ current_trick = <<>>
      /\ current_trick' # <<>>
      /\ TricksWon > 0)
       => current_trick'[1].player = current_player]_vars

SpadePlayed ==
  \E i \in 1..DeckSize :
    IsSpade(FullDeck[i]) /\ \A p \in Seats : FullDeck[i] \notin Range(hands[p])

C14_BidsFixedWhilePlaying ==
  [][(game_state = "playing" /\ (bids' # bids \/ deal_bids' # deal_bids))
       => last' \in {"deal_cards", "start_game", "new_game", "load_game"}]_vars

Fields ==
  [game_state |-> game_state, hands |-> hands, bids |-> bids,
   deal_bids |-> deal_bids, tricks |-> tricks, current_trick |-> current_trick,
   current_player |-> current_player, lead_suit |-> lead_suit,
   spades_broken |-> spades_broken, scores |-> scores, rounds |-> rounds]

\* the game a complete snapshot describes
Described(data) ==
  [game_state |-> data.game_state,
   hands |-> [i \in Seats |-> [k \in DOMAIN data.hands[i] |->
                Card(data.hands[i][k].suit, data.hands[i][k].rank)]],
   bids |-> data.bids,
   deal_bids |-> data.deal_bids,
   tricks |-> data.tricks,
   current_trick |-> [k \in DOMAIN data.current_trick |->
                        [player |-> data.current_trick[k].player,
                         card |-> Card(data.current_trick[k].card.suit,
                                       data.current_trick[k].card.rank)]],
   current_player |-> data.current_player,
   lead_suit |-> data.lead_suit,
   spades_broken |-> data.spades_broken,
   scores |-> data.scores,
   rounds |-> data.rounds]

C16_SaveLoadRoundTrip ==
  [][/\ (last' = "save_game" /\ game_state # "tutorial") => Described(save_file') = Fields
     /\ last' = "load_game" /\ save_file # Absent => Fields' = Described(save_file)
     /\ save_file' # save_file => last' = "save_game"]_vars

\* a game saved in the first round with a trick under way is loaded back
\* after the second round was dealt
C16_Witness ==
  /\ last = "load_game"
  /\ deals = 2
  /\ save_file.game_state = "playing"
  /\ save_file.rounds = 1
  /\ Len(save_file.current_trick) \in 1..3
  /\ Fields = Described(save_file)

(***************************************************************************)
(* C17: a load that fails on a snapshot lacking a required field ends in   *)
(* the error dialog and leaves every field of the game as it was.          *)
(***************************************************************************)
C17_FailedLoadKeepsState ==
  [][last' = "load_failed" => Fields' = Fields]_vars

(***************************************************************************)
(* C18: between handlers the statistics file holds what the statistics     *)
(* record in memory holds: reading the file back gives the record.         *)
(***************************************************************************)
C18_StatsFileCurrent == load_stats(stats_file) = stats

(***************************************************************************)
(* C19: whatever the statistics file holds at the start, the record in     *)
(* memory has all eight counters, so that the Stats button's get_summary   *)
(* never raises.                                                           *)
(***************************************************************************)
C19_StatsComplete ==
  /\ DOMAIN stats = DOMAIN DefaultStats
  /\ last = "show_stats" => ~raised

(***************************************************************************)
(* C20: while a web quiz is active, the answer log has current_index       *)
(* entries, current_index is at most the number of questions, the score is *)
(* the number of log entries marked correct, and each accepted submit      *)
(* raises current_index by one.                                            *)
(***************************************************************************)
C20_QuizSessionConsistent ==
  /\ [](("quiz_active" \in DOMAIN session /\ session.quiz_active) =>
          /\ Len(session.answers) = session.current_index
          /\ session.current_index <= Len(session.questions)
          /\ session.score =
               Cardinality({k \in DOMAIN session.answers : session.answers[k].is_correct}))
  /\ [][reply' = "submit ok" => session'.current_index = session.current_index + 1]_vars

\* every question answered, some right and some wrong
C20_Witness ==
  /\ reply = "submit ok"
  /\ session.quiz_active
  /\ session.current_index = NumQuestions
  /\ session.score \in 1..(NumQuestions - 1)
  /\ Len(session.answers) = NumQuestions

(***************************************************************************)
(* C21: a start-quiz whose user name has fewer than 3 characters after     *)
(* trimming is answered with an error and leaves the session as it was; a  *)
(* start-quiz that succeeds leaves current_index 0, score 0, an empty      *)
(* answer log and quiz_active true, and the trimmed name it stored has 3   *)
(* characters or more.                                                     *)
(***************************************************************************)
C21_StartQuizResets ==
  [][/\ reply' = "400 username" => session' = session
     /\ reply' = "start ok" =>
          /\ session'.current_index = 0
          /\ session'.score = 0
          /\ session'.answers = <<>>
          /\ session'.quiz_active = TRUE
          /\ Len(session'.username) >= 3]_vars

\* a quiz starts afresh in a session that has a finished quiz with points
C21_Witness ==
  /\ reply = "start ok"
  /\ results > 0
  /\ scores_json.value[Len(scores_json.value)].score > 0
  /\ session.score = 0
  /\ session.current_index = 0
  /\ session.quiz_active

(***************************************************************************)
(* C22: a get-results on an active session appends exactly one entry to    *)
(* the leaderboard file and deactivates the session; while the session is  *)
(* not active, get-results, get-question and submit-answer are answered    *)
(* with an error and the file stays as it is.                              *)
(***************************************************************************)
C22_ResultsOnce ==
  [][/\ (/\ "quiz_active" \in DOMAIN session /\ session.quiz_active
         /\ reply' \in {"results", "500 get-results"})
          => /\ scores_json'.kind = "json"
             /\ Len(scores_json'.value) = Len(load_scores(scores_json)) + 1
             /\ ~session'.quiz_active
     /\ (/\ ~("quiz_active" \in DOMAIN session /\ session.quiz_active)
         /\ reply' \notin {"start ok", "400 username", "500 no questions",
                           "leaderboard", "500 leaderboard"})
          => /\ reply' = "400 no quiz"
             /\ scores_json' = scores_json]_vars

(***************************************************************************)
(* C24: with the leaderboard file missing or holding no valid JSON, the    *)
(* leaderboard route answers with an empty ranking and get-results writes  *)
(* a file holding the one new entry; neither fails.                        *)
(***************************************************************************)
C24_CorruptScoresAreEmpty ==
  [][scores_json.kind # "json" =>
       /\ reply' \notin {"500 leaderboard", "500 get-results"}
       /\ reply' = "leaderboard" => ranking' = <<>>
       /\ reply' = "results" => /\ scores_json'.kind = "json"
                                /\ Len(scores_json'.value) = 1]_vars

(***************************************************************************)
(* C23: the leaderboard route returns at most 10 entries, in non-          *)
(* increasing order of percentage, and every entry it returns has a        *)
(* percentage at least as high as every stored entry it leaves out.        *)
(***************************************************************************)
\* how often the entry e occurs in the list
Copies(list, e) == Cardinality({k \in DOMAIN list : list[k] = e})

\* the stored entries of which the ranking leaves a copy out
LeftOut ==
  {e \in Range(load_scores(scores_json)) :
     Copies(load_scores(scores_json), e) > Copies(ranking, e)}

C23_LeaderboardTop ==
  reply = "leaderboard" =>
    /\ Len(ranking) <= 10
    /\ \A i, j \in DOMAIN ranking : i < j => ranking[i].percentage >= ranking[j].percentage
    /\ \A i \in DOMAIN ranking : \A e \in LeftOut : ranking[i].percentage >= e.percentage

\* twelve entries are stored, two of them are left out, and the ranking
\* holds a new entry next to stored ones of the same and of other percentages
C23_Witness ==
  /\ reply = "leaderboard"
  /\ Len(load_scores(scores_json)) = 12
  /\ Len(ranking) = 10
  /\ Cardinality(LeftOut) = 2
  /\ \E i, j \in DOMAIN ranking :
       /\ i < j
       /\ ranking[i].percentage = ranking[j].percentage
       /\ ranking[j].total = NumQuestions
  /\ ranking[1].percentage > ranking[10].percentage

(***************************************************************************)
(* C25: the running score of the console quiz is never negative, whatever  *)
(* the questions are worth and however they are answered.                  *)
(***************************************************************************)
C25_ScoreNeverNegative == quiz.score >= 0

(***************************************************************************)
(* C26: with every question of the file worth 1 point, the final score     *)
(* line of the console quiz reports the number of correctly answered       *)
(* questions as score, the number of questions as max_score, and           *)
(* 100 * score / max_score to one decimal as percentage: 66.7 for two      *)
(* correct answers out of three.                                           *)
(***************************************************************************)
Correct == {k \in DOMAIN quiz.answers : quiz.answers[k].is_correct}

C26_OnePointScoring ==
  (/\ run.report.shown
   /\ run.pc \in {"restart", "done"}
   /\ \A k \in DOMAIN run.file : "points" \in DOMAIN run.file[k] => run.file[k].points = 1)
    => /\ run.report.score = Cardinality(Correct)
       /\ run.report.max_score = Len(quiz.questions)
       /\ 2 * run.report.tenths * run.report.max_score - 2000 * run.report.score
            \in (0 - run.report.max_score)..run.report.max_score
       /\ (Cardinality(Correct) = 2 /\ Len(quiz.questions) = 3) => run.report.tenths = 667

\* the second pass of a run ends with two of three answers right
C26_Witness ==
  /\ run.report.shown
  /\ run.pc = "done"
  /\ run.in_restart
  /\ run.file = OnePointBank
  /\ Cardinality(Correct) = 2
  /\ Len(quiz.answers) = 3
  /\ run.report.tenths = 667

(***************************************************************************)
(* C27: the progress line of the console quiz has a bar of 20 segments, of *)
(* which round(percent / 5) are filled, percent being 100 * index / total. *)
(***************************************************************************)
C27_ProgressBarRounded ==
  run.progress.total > 0 =>
    /\ Len(run.progress.bar) = 20
    /\ Cardinality({k \in DOMAIN run.progress.bar : run.progress.bar[k] = "#"})
         = RoundHalfEven(20 * run.progress.current, run.progress.total)

(***************************************************************************)
(* C28: the console quiz asks for a restart after every completed pass: it *)
(* ends only after the question was put and not answered with y; and an    *)
(* accepted restart begins with score 0, max_score 0 and an empty answer   *)
(* log.                                                                    *)
(***************************************************************************)
C28_RestartAfterEveryPass ==
  /\ [](run.pc = "done" /\ run.report.shown => run.prompt = "again")
  /\ [][(run.pc = "restart" /\ run'.pc = "name")
          => quiz'.score = 0 /\ quiz'.max_score = 0 /\ quiz'.answers = <<>>]_vars

\* the prompts of build_custom_pivot and the options each of them lists
SelectionPrompts == {"rows", "cols", "vals", "aggs"}

Listed(pc) ==
  CASE pc = "rows" -> 6 [] pc = "cols" -> 2 [] pc = "vals" -> 3 [] pc = "aggs" -> 3

\* a line with a selection that is not an integer between 1 and n
NotListed(line, n) ==
  \E k \in DOMAIN split(line) :
    ValueError(split(line)[k]) \/ int(split(line)[k]) \notin 1..n

\* C29: in the custom pivot builder a line with a selection that is not an
\* integer between 1 and the number of listed options (too large, zero,
\* negative or not a number) aborts the builder: "Invalid choice" is printed,
\* the program is back in the menu loop and the cached results are what they
\* were.  Enter alone at the optional column prompt is no selection.
C29_InvalidSelectionAborts ==
  [][(/\ dashboard.pc \in SelectionPrompts
      /\ ~(dashboard.pc = "cols" /\ strip(dashboard'.line) = <<>>)
      /\ NotListed(dashboard'.line, Listed(dashboard.pc)))
     => /\ dashboard'.pc = "continue"
        /\ dashboard'.said = "Invalid choice"
        /\ dashboard'.saved_results = dashboard.saved_results]_vars

\* what the dashboard prints when an analysis has failed
Failures == {"Error: Column not found in data", "Error creating pivot table"}

\* C30: the menu loop ends only on the entry 11; an entry that is not a
\* number or is outside 1..11 runs no analysis, leaves the cached results
\* as they were and leads back to the menu; an analysis that fails adds no
\* cache entry and leads back to the menu as well.
C30_MenuLoop ==
  [][/\ (dashboard.pc # "end" /\ dashboard'.pc = "end")
        => /\ dashboard.pc = "menu"
           /\ ~ValueError(dashboard'.line)
           /\ int(dashboard'.line) = 11
     /\ (dashboard.pc = "menu"
         /\ (ValueError(dashboard'.line) \/ int(dashboard'.line) \notin 1..11))
        => /\ dashboard'.pc = "continue"
           /\ dashboard'.said \in {"Invalid input", "Please enter a number between 1 and 11"}
           /\ dashboard'.saved_results = dashboard.saved_results
           /\ dashboard'.files = dashboard.files
     /\ dashboard'.said \in Failures
        => /\ dashboard'.pc = "continue"
           /\ dashboard'.saved_results = dashboard.saved_results
     /\ dashboard.pc = "continue" => dashboard'.pc = "menu"]_vars

\* an analysis has failed on a missing column with a result in the cache
C30_Witness ==
  /\ dashboard.pc = "continue"
  /\ dashboard.said = "Error: Column not found in data"
  /\ dashboard.line = <<"3">>
  /\ Len(dashboard.saved_results) = 1

LegalCards ==
  LET hand == Range(call.hand)
      led == {c \in hand : c.suit = call.trick[1].card.suit}
      plain == {c \in hand : ~IsSpade(c)}
  IN  IF call.trick # <<>> THEN (IF led # {} THEN led ELSE hand)
      ELSE IF ~call.spades_broken /\ plain # {} THEN plain ELSE hand

\* the legal cards that beat the play winning the trick so far
Beating ==
  LET best == BestPlay(call.trick).card
  IN  {c \in LegalCards : \/ IsSpade(c) /\ ~IsSpade(best)
                          \/ c.suit = best.suit /\ get_value(c) > get_value(best)}

Lowest(S, c) == c \in S /\ \A d \in S : get_value(c) <= get_value(d)

Highest(S, c) == c \in S /\ \A d \in S : get_value(c) >= get_value(d)

\* C32: for a non-empty hand choose_card returns a legal card of the hand;
\* the lowest legal card when the seat declared a zero-bid, its partner wins
\* the trick so far or the seat has met its bid; otherwise the highest legal
\* card on a lead and, when following, the lowest legal card that beats the
\* winning play, the lowest legal card if none does.
C32_ChooseCard ==
  (call.fn = "choose_card" /\ call.returned /\ call.hand # <<>>)
  => /\ call.card \in LegalCards
     /\ IF \/ call.deal
           \/ call.trick # <<>> /\ BestPlay(call.trick).player = Partner(call.player_idx)
           \/ call.bid # NoBid /\ call.won >= call.bid
        THEN Lowest(LegalCards, call.card)
        ELSE IF call.trick = <<>> THEN Highest(LegalCards, call.card)
        ELSE IF Beating # {} THEN Lowest(Beating, call.card)
        ELSE Lowest(LegalCards, call.card)

\* the cards of the hand of a call whose value is in vs / that are spades
Ranked(vs) == {k \in DOMAIN call.hand : get_value(call.hand[k]) \in vs}

Spades == {k \in DOMAIN call.hand : IsSpade(call.hand[k])}

\* C33: make_bid returns a flagged zero-bid (0, True) or a bid b in 1..13
\* that is calc_strength(hand) plus -1, 0 or 1, clamped to 1..13; it always
\* declares a zero-bid for a hand with no card ranked Jack or above, at least
\* 10 cards ranked 5 or below and at most 2 spades, and never for a hand with
\* two or more cards ranked Jack or above.
C33_MakeBid ==
  (call.fn = "make_bid" /\ call.returned)
  => /\ \/ call.bid = 0 /\ call.is_deal
        \/ /\ ~call.is_deal
           /\ call.bid \in 1..13
           /\ \E r \in -1..1 :
                LET b == calc_strength(call.hand) + r
                IN  call.bid = (IF b < 1 THEN 1 ELSE IF b > 13 THEN 13 ELSE b)
     /\ (Ranked(11..14) = {} /\ Cardinality(Ranked(2..5)) >= 10 /\ Cardinality(Spades) <= 2)
        => call.is_deal
     /\ Cardinality(Ranked(11..14)) >= 2 => ~call.is_deal

\* a zero-bid has come back for a hand that must get one
C33_Witness ==
  /\ call.fn = "make_bid"
  /\ call.returned
  /\ call.is_deal
  /\ Ranked(11..14) = {}
  /\ Cardinality(Ranked(2..5)) >= 10
  /\ Cardinality(Spades) = 2

\* a finish_trick callback is pending in q
Pending(q, cb) == \E i \in DOMAIN q : q[i].cb = cb

\* C34: finish_trick only ever runs on a trick of exactly four plays, so its
\* access to the first play never fails, whatever the operator clicks during
\* the delay; and it credits no trick to a round other than the one in which
\* it was scheduled: no new game, load or deal happens while a finish_trick
\* callback is pending and stays pending.
C34_FinishTrickOnFour ==
  [][/\ last' = "finish_trick" => (~raised' /\ Len(current_trick) = 4)
     /\ (Pending(timers, "finish_trick") /\ Pending(timers', "finish_trick"))
        => ~(\/ last' \in {"new_game", "deal_cards"}
             \/ last' = "load_game" /\ save_file # Absent)]_vars

\* the human's team (Team 1) has won: it has reached the winning score and
\* the other team has no more points
HumanTeamWon == scores[0][0] >= WINNING_SCORE /\ scores[0][0] >= scores[1][0]

\* a counter of the statistics, 0 when the record has no such counter
Count(st, key) == IF key \in DOMAIN st THEN st[key] ELSE 0

\* C35: games_played grows only in end_game, by one, in a state where a
\* team's score is at least 300; games_won grows with it exactly when the
\* human's team is the winning team; no finished game is counted twice (no
\* two end_game callbacks are pending together).  New Game and Load between
\* end_round and end_game are among the steps.
C35_GamesCounted ==
  [][/\ Count(stats', "games_played") # Count(stats, "games_played")
        => /\ last' = "end_game"
           /\ Count(stats', "games_played") = Count(stats, "games_played") + 1
           /\ \E t \in 0..1 : scores[t][0] >= WINNING_SCORE
           /\ Count(stats', "games_won") # Count(stats, "games_won") <=> HumanTeamWon
     /\ Count(stats', "games_won") # Count(stats, "games_won")
        => /\ Count(stats', "games_played") = Count(stats, "games_played") + 1
           /\ Count(stats', "games_won") = Count(stats, "games_won") + 1
     /\ Cardinality({i \in DOMAIN timers' : timers'[i].cb = "end_game"}) <= 1]_vars

\* C36: after load_game has restored a snapshot saved during play (also one
\* saved while a trick of four cards awaits its resolution) the game goes
\* on: the round reaches its resolution, the restored trick being resolved
\* on the way, when the human plays a legal card whenever it is their turn.
C36_LoadedGameGoesOn ==
  (last = "load_game" /\ ~raised /\ game_state = "playing") ~> (last = "end_round")

\* C37: after a round resolution the bag counter of each team is between 0
\* and 9, whatever the bids and the tricks of the round, for every counter
\* between 0 and 9 before the round.
C37_BagsBelowTen ==
  (call.fn = "calc_score_and_next" /\ call.returned)
    => \A ti \in 0..1 : call.game.scores[ti][1] \in 0..9

\* every get-results request has been answered
AllAnswered ==
  /\ call.fn = "get_results"
  /\ \A r \in Requests : call.requests[r].pc \in {"done", "failed"}

\* C38: when get-results requests of different sessions overlap, the
\* leaderboard file afterwards holds every earlier entry and one new entry
\* for each request.
C38_NoEntryLost ==
  AllAnswered =>
    /\ scores_json.kind = "json"
    /\ Len(scores_json.value) = Len(call.earlier) + NumRequests
    /\ SubSeq(scores_json.value, 1, Len(call.earlier)) = call.earlier
    /\ \A r \in Requests :
         \E k \in DOMAIN scores_json.value :
           k > Len(call.earlier) /\ scores_json.value[k] = call.requests[r].score_data

\* the answers of submit-answer
SubmitReplies == {"400 no quiz", "400 no answer", "500 IndexError", "submit ok"}

\* C39: submit-answer on an active session whose current_index is past the
\* last question answers with an error response, not with an unhandled
\* exception, and leaves score, answers and current_index as they were.
C39_SubmitPastTheEnd ==
  [][(/\ quiz_active(QuizSt)
      /\ session.current_index >= Len(session.questions)
      /\ reply' \in SubmitReplies)
     => (reply' \in {"400 no quiz", "400 no answer"} /\ session' = session)]_vars

\* C40: get-results writes a leaderboard entry only for a finished quiz:
\* the file changes only when the session is active and its current_index
\* equals the number of its questions.
C40_EntryOnlyWhenFinished ==
  [][scores_json' # scores_json
     => (quiz_active(QuizSt) /\ session.current_index = Len(session.questions))]_vars

====
